---- MODULE Spec2Model ----
(***************************************************************************)
(* A state-machine model of the yili-ai-python FastAPI service: the        *)
(* in-memory customers / products / orders stores and their CRUD handlers, *)
(* the checkpointed conversation demo, the natural-language-to-query       *)
(* translator and the customer search endpoints.                           *)
(*                                                                         *)
(* Conventions                                                             *)
(*  - a Python dict is a TLA+ function from key strings to values, so that *)
(*    {**a, **b} is DictMerge(a, b) and a key can be absent;               *)
(*  - Python None in a string-valued field is the string None; an optional *)
(*    datetime is <<>> (None) or <<t>>;                                    *)
(*  - datetime.now() is the logical clock now, which every call of it       *)
(*    advances; the seeded rows were created at time 0;                    *)
(*  - money amounts are integers (whole currency units): 6999.00 is 6999;  *)
(*  - non-ASCII literals of the source are transliterated (the original    *)
(*    text is quoted in the comment next to each).                         *)
(***************************************************************************)
EXTENDS Integers, Sequences, FiniteSets, TLC

VARIABLES
    now,              \* logical clock: the value datetime.now() returns next
    resp,             \* the last HTTP exchange: request, status and body
    customers_db,     \* customers.py: customers_db (a list of dicts)
    products_db,      \* products.py: products_db
    orders_db,        \* orders.py: orders_db
    order_items_db,   \* orders.py: order_items_db
    threads,          \* langgraph.py: the MemorySaver state, per thread_id
    provider,         \* what the chat model does on its next call
    nl_result,        \* what convert_nl_to_es_query returned last
    es_log,           \* the bodies the last request handed to es_client.search
    agent,            \* react_agent.py: one ReactAgent object
    tasks,            \* the event loop: each request task's handler and locals
    assigned_ids      \* history: the ids each store has ever given to a record

vars == <<now, resp, customers_db, products_db, orders_db, order_items_db,
          threads, provider, nl_result, es_log, agent, tasks, assigned_ids>>

---------------------------------------------------------------------------
(* Bounds of the model *)

\* the clock stops here: a behaviour holds at most MaxClock - 1 calls of
\* datetime.now(), that is successful creates and updates
MaxClock == 3

\* the deepest nesting of the JSON text the provider is let to return
MaxDepth == 3

\* the longest message history a thread is let to reach
MaxHistory == 6

\* longest list of similarity scores handed to calculate_weighted_similarity
MaxScores == 6

\* most hits handed to aggregate_customer_data
MaxHits == 6

\* most hits handed to aggregate_customer_data when they are of any kind
MaxMixedHits == 3

\* most lines in a conversation file
MaxLines == 4

\* most tool calls the model requests in one response
MaxToolCalls == 2

\* most tools added to the ReactAgent
MaxTools == 1

---------------------------------------------------------------------------
(* Python helpers *)

None == "None"

NoTime == <<>>
Time(t) == <<t>>

\* {**a, **b}
DictMerge(a, b) ==
    [k \in (DOMAIN a) \cup (DOMAIN b) |-> IF k \in DOMAIN b THEN b[k] ELSE a[k]]

\* A request body is the JSON object sent: a function over the keys it carries.
\* model.<field> of the parsed pydantic model: the value sent, else the default None
Attr(body, f) == IF f \in DOMAIN body THEN body[f] ELSE None

\* bug variant: keys that are no fields of the model are kept
ExcludeUnsetKeepExtras(body, fields) == body

\* model.dict(exclude_unset=True): the model's fields that the body carried,
\* explicit nulls included
ExcludeUnset(body, fields) == [k \in (DOMAIN body) \cap fields |-> body[k]]

RECURSIVE SeqMax(_)
SeqMax(s) ==
    IF Len(s) = 1 THEN s[1]
    ELSE LET m == SeqMax(Tail(s)) IN IF s[1] > m THEN s[1] ELSE m

Ids(db) == [i \in 1..Len(db) |-> db[i]["id"]]

\* bug variant: the id is the number of rows plus one
NextIdByCount(db) == Len(db) + 1

\* max(c["id"] for c in db) + 1 if db else 1
NextId(db) == IF db # <<>> THEN SeqMax(Ids(db)) + 1 ELSE 1

\* bug variant: when no row has the id, the loop variable is used after the loop
\* and is the index of the last row
FindIndexLoopVar(db, id) ==
    IF \E i \in 1..Len(db) : db[i]["id"] = id
    THEN CHOOSE i \in 1..Len(db) :
            /\ db[i]["id"] = id
            /\ \A j \in 1..(i - 1) : db[j]["id"] # id
    ELSE Len(db)

\* index of the first row with that id, 0 when there is none
\* (for i, c in enumerate(db): if c["id"] == id)
FindIndex(db, id) ==
    IF \E i \in 1..Len(db) : db[i]["id"] = id
    THEN CHOOSE i \in 1..Len(db) :
            /\ db[i]["id"] = id
            /\ \A j \in 1..(i - 1) : db[j]["id"] # id
    ELSE 0

\* list.pop(i), for a 1-based index
Pop(db, i) == SubSeq(db, 1, i - 1) \o SubSeq(db, i + 1, Len(db))

\* the outcome of a lookup that found no row (the empty dict is no row)
NotFound == <<>>

\* the request tasks the event loop can hold at one time
TaskIds == {"t1", "t2"}

\* a task slot with no request in it
Idle == [handler |-> "none"]

\* the initial exchange: nothing was requested yet
NoResp == [op |-> "none", id |-> 0, email |-> None, status |-> 0]

---------------------------------------------------------------------------
(* customers.py *)

SeedCustomers == <<
    [id |-> 1, name |-> "zhangsan", email |-> "zhangsan@example.com",
     phone |-> "13800138001", address |-> "addr1", vip_level |-> 3,
     created_at |-> Time(0), updated_at |-> NoTime,
     total_orders |-> 5, total_spent |-> 25000],
    [id |-> 2, name |-> "lisi", email |-> "lisi@example.com",
     phone |-> "13900139002", address |-> "addr2", vip_level |-> 1,
     created_at |-> Time(0), updated_at |-> NoTime,
     total_orders |-> 2, total_spent |-> 8000],
    [id |-> 3, name |-> "wangwu", email |-> "wangwu@example.com",
     phone |-> "13700137003", address |-> "addr3", vip_level |-> 0,
     created_at |-> Time(0), updated_at |-> NoTime,
     total_orders |-> 1, total_spent |-> 2000] >>

\* the values of an EmailStr field the requests are drawn from
Emails == {"zhangsan@example.com", "new@example.com"}

\* CustomerCreate bodies (name, email and phone are required)
CustomerCreates ==
    [name : {"zhaoliu"}, email : Emails, phone : {"13600136004"},
     address : {None}, vip_level : {0}]

\* CustomerUpdate: every field is optional
CustomerUpdateFields == {"name", "email", "phone", "address", "vip_level"}

\* CustomerUpdate bodies: a field can be absent, carry an explicit null (None)
\* or carry a value
CustomerUpdates ==
    {DictMerge(DictMerge(n, e), v) :
        n \in {<<>>} \cup {[name |-> "renamed"]},
        e \in {<<>>} \cup {[email |-> x] : x \in {None} \cup Emails},
        v \in {<<>>}}

CustomerIds == 1..4

\* bug variant: the duplicate check is skipped
EmailTakenNever(db, email) == FALSE

\* any(c["email"] == customer.email for c in customers_db)
EmailTaken(db, email) == \E i \in 1..Len(db) : db[i]["email"] = email

\* bug variant: the record being updated is not excluded, and the comparison
\* with its current email is dropped
EmailConflictNever(db, c, customer_id, email) == FALSE

\* customer.email and customer.email != c["email"] and
\*   any(other["email"] == customer.email for other in db if other["id"] != customer_id)
EmailConflict(db, c, customer_id, email) ==
    /\ email # None
    /\ email # c["email"]
    /\ \E i \in 1..Len(db) : db[i]["id"] # customer_id /\ db[i]["email"] = email

\* CustomerResponse validation of a returned dict: email is a required EmailStr
CustomerResponseOk(c) == c["email"] # None /\ c["name"] # None /\ c["phone"] # None

create_customer(customer) ==
    /\ IF EmailTaken(customers_db, customer.email)
       THEN \* HTTPException(400, "该邮箱已被注册")
            /\ resp' = [op |-> "create_customer", id |-> 0,
                        email |-> customer.email, status |-> 400]
            /\ UNCHANGED <<customers_db, now, assigned_ids>>
       ELSE LET new_customer ==
                   DictMerge(customer,
                       [id |-> NextId(customers_db), created_at |-> Time(now),
                        updated_at |-> NoTime, total_orders |-> 0,
                        total_spent |-> 0])
            IN /\ now < MaxClock
               /\ now' = now + 1
               /\ customers_db' = Append(customers_db, new_customer)
               /\ assigned_ids' = [assigned_ids EXCEPT
                                      !.customers = @ \cup {new_customer["id"]}]
               /\ resp' = [op |-> "create_customer", id |-> new_customer["id"],
                           email |-> customer.email, status |-> 201]
    /\ UNCHANGED <<products_db, orders_db, order_items_db, threads, provider,
                   nl_result, es_log,
                   agent>>

update_customer(customer_id, customer) ==
    /\ LET i == FindIndex(customers_db, customer_id) IN
       IF i = 0
       THEN \* HTTPException(404, "客户不存在")
            /\ resp' = [op |-> "update_customer", id |-> customer_id,
                        email |-> Attr(customer, "email"), status |-> 404,
                        request |-> customer]
            /\ UNCHANGED <<customers_db, now>>
       ELSE LET c == customers_db[i] IN
            IF EmailConflict(customers_db, c, customer_id, Attr(customer, "email"))
            THEN \* HTTPException(400, "该邮箱已被其他客户注册")
                 /\ resp' = [op |-> "update_customer", id |-> customer_id,
                             email |-> Attr(customer, "email"), status |-> 400,
                             request |-> customer]
                 /\ UNCHANGED <<customers_db, now>>
            ELSE LET update_data == ExcludeUnset(customer, CustomerUpdateFields)
                     updated_customer ==
                         DictMerge(DictMerge(c, update_data),
                                   [updated_at |-> Time(now)])
                 IN /\ now < MaxClock
                    /\ now' = now + 1
                    /\ customers_db' = [customers_db EXCEPT ![i] = updated_customer]
                    /\ resp' = [op |-> "update_customer", id |-> customer_id,
                                email |-> Attr(customer, "email"),
                                request |-> customer,
                                status |-> IF CustomerResponseOk(updated_customer)
                                           THEN 200 ELSE 500]
    /\ UNCHANGED <<products_db, orders_db, order_items_db, threads, provider,
                   nl_result, es_log,
                   agent, tasks, assigned_ids>>

delete_customer(customer_id) ==
    /\ LET i == FindIndex(customers_db, customer_id) IN
       IF i = 0
       THEN \* HTTPException(404, "客户不存在")
            /\ resp' = [op |-> "delete_customer", id |-> customer_id,
                        email |-> None, status |-> 404]
            /\ UNCHANGED customers_db
       ELSE /\ customers_db' = Pop(customers_db, i)
            /\ resp' = [op |-> "delete_customer", id |-> customer_id,
                        email |-> None, status |-> 204]
    /\ UNCHANGED <<now, products_db, orders_db, order_items_db, threads, provider,
                   nl_result, es_log,
                   agent, tasks, assigned_ids>>

---------------------------------------------------------------------------
(* products.py *)

SeedProducts == <<
    [id |-> 1, name |-> "laptop", description |-> "desc1", price |-> 6999,
     stock |-> 100, category |-> "electronics",
     created_at |-> Time(0), updated_at |-> NoTime],
    [id |-> 2, name |-> "phone", description |-> "desc2", price |-> 4999,
     stock |-> 200, category |-> "electronics",
     created_at |-> Time(0), updated_at |-> NoTime],
    [id |-> 3, name |-> "earphones", description |-> "desc3", price |-> 999,
     stock |-> 300, category |-> "accessories",
     created_at |-> Time(0), updated_at |-> NoTime] >>

\* ProductCreate bodies after pydantic filled the defaults
\* (description: None, stock: 0)
ProductCreates ==
    {[name |-> "tablet", description |-> None, price |-> 10, stock |-> 0,
      category |-> "electronics"],
     [name |-> "laptop", description |-> "desc4", price |-> 6999, stock |-> 7,
      category |-> "accessories"]}

ProductUpdateFields == {"name", "description", "price", "stock", "category"}

\* ProductUpdate bodies: absent fields, values, explicit nulls, and a key
\* (id) that is no field of ProductUpdate
ProductUpdates ==
    {<<>>, [name |-> "renamed", stock |-> 9, id |-> 9], [description |-> None],
     [name |-> None]}

ProductIds == 1..4

\* ProductResponse validation of a returned dict: name and category are
\* required strings
ProductResponseOk(p) == p["name"] # None /\ p["category"] # None

\* for product in products_db: if product["id"] == product_id: return product
\* (NotFound stands for the HTTPException(404, "产品不存在"))
LookupProduct(db, product_id) ==
    LET i == FindIndex(db, product_id) IN IF i = 0 THEN NotFound ELSE db[i]

create_product(product) ==
    /\ now < MaxClock
    /\ now' = now + 1
    /\ LET new_product ==
           DictMerge(product,
               [id |-> NextId(products_db), created_at |-> Time(now),
                updated_at |-> NoTime])
       IN /\ products_db' = Append(products_db, new_product)
          /\ assigned_ids' = [assigned_ids EXCEPT
                                 !.products = @ \cup {new_product["id"]}]
          /\ resp' = [op |-> "create_product", id |-> new_product["id"],
                      request |-> product, status |-> 201, body |-> new_product]
    /\ UNCHANGED <<customers_db, orders_db, order_items_db, threads, provider,
                   nl_result, es_log,
                   agent>>

get_product(product_id) ==
    /\ LET product == LookupProduct(products_db, product_id) IN
       resp' = IF product = NotFound
               THEN [op |-> "get_product", id |-> product_id, request |-> <<>>,
                     status |-> 404, body |-> <<>>]
               ELSE [op |-> "get_product", id |-> product_id, request |-> <<>>,
                     status |-> IF ProductResponseOk(product) THEN 200 ELSE 500,
                     body |-> product]
    /\ UNCHANGED <<now, customers_db, products_db, orders_db, order_items_db,
                   threads, provider, nl_result, es_log,
                   agent, tasks, assigned_ids>>

update_product(product_id, product) ==
    /\ LET i == FindIndex(products_db, product_id) IN
       IF i = 0
       THEN /\ resp' = [op |-> "update_product", id |-> product_id,
                        request |-> <<>>, status |-> 404, body |-> <<>>]
            /\ UNCHANGED <<products_db, now>>
       ELSE LET update_data == ExcludeUnset(product, ProductUpdateFields)
                updated_product ==
                    DictMerge(DictMerge(products_db[i], update_data),
                              [updated_at |-> Time(now)])
            IN /\ now < MaxClock
               /\ now' = now + 1
               /\ products_db' = [products_db EXCEPT ![i] = updated_product]
               /\ resp' = [op |-> "update_product", id |-> product_id,
                           request |-> product,
                           status |-> IF ProductResponseOk(updated_product)
                                      THEN 200 ELSE 500,
                           body |-> updated_product]
    /\ UNCHANGED <<customers_db, orders_db, order_items_db, threads, provider,
                   nl_result, es_log,
                   agent, tasks, assigned_ids>>

delete_product(product_id) ==
    /\ LET i == FindIndex(products_db, product_id) IN
       IF i = 0
       THEN /\ resp' = [op |-> "delete_product", id |-> product_id,
                        request |-> <<>>, status |-> 404, body |-> <<>>]
            /\ UNCHANGED products_db
       ELSE /\ products_db' = Pop(products_db, i)
            /\ resp' = [op |-> "delete_product", id |-> product_id,
                        request |-> <<>>, status |-> 204, body |-> <<>>]
    /\ UNCHANGED <<now, customers_db, orders_db, order_items_db, threads,
                   provider, nl_result, es_log,
                   agent, tasks, assigned_ids>>

---------------------------------------------------------------------------
(* orders.py *)

SeedOrderItems == <<
    [id |-> 1, order_id |-> 1, product_id |-> 1, quantity |-> 2,
     unit_price |-> 6999, subtotal |-> 13998],
    [id |-> 2, order_id |-> 1, product_id |-> 3, quantity |-> 1,
     unit_price |-> 999, subtotal |-> 999],
    [id |-> 3, order_id |-> 2, product_id |-> 2, quantity |-> 1,
     unit_price |-> 4999, subtotal |-> 4999] >>

SeedOrders == <<
    [id |-> 1, user_id |-> 1, status |-> "paid", shipping_address |-> "addr1",
     payment_method |-> "alipay", total_amount |-> 14997,
     created_at |-> Time(0), updated_at |-> NoTime],
    [id |-> 2, user_id |-> 2, status |-> "shipped", shipping_address |-> "addr2",
     payment_method |-> "wechat", total_amount |-> 4999,
     created_at |-> Time(0), updated_at |-> NoTime] >>

\* the lists of OrderItemCreate a create request is drawn from: each of the
\* product ids of the price table, one id outside it, the empty list
OrderItemLists ==
    {<<>>,
     <<[product_id |-> 4, quantity |-> 3, unit_price |-> 7]>>,
     <<[product_id |-> 1, quantity |-> 2, unit_price |-> 7],
       [product_id |-> 4, quantity |-> 1, unit_price |-> 5]>>,
     <<[product_id |-> 2, quantity |-> 1, unit_price |-> 7],
       [product_id |-> 3, quantity |-> 2, unit_price |-> 7],
       [product_id |-> 9, quantity |-> 2, unit_price |-> 0]>>}

\* OrderCreate bodies after pydantic filled the defaults (status: "pending")
OrderCreates ==
    [user_id : {1}, status : {"pending"}, shipping_address : {"addr3"},
     payment_method : {"card"}, items : OrderItemLists]

OrderUpdateFields == {"status", "shipping_address", "payment_method"}

\* OrderUpdate bodies
OrderUpdates == {<<>>, [status |-> "delivered"], [status |-> None]}

OrderIds == 1..3

\* the queries of GET /orders/: skip, limit, status, user_id (0 is "not given":
\* the handler tests "if user_id:")
OrderQueries ==
    {[skip |-> 0, limit |-> 10, status |-> None, user_id |-> 0],
     [skip |-> 1, limit |-> 1, status |-> None, user_id |-> 0],
     [skip |-> 0, limit |-> 10, status |-> "paid", user_id |-> 1]}

\* bug variant: the caller's price is used for every product
ProductPriceFromCaller(item) == item.unit_price

\* the if/elif chain of create_order: the price of products 1, 2, 3 is fixed
ProductPrice(item) ==
    IF item.product_id = 1 THEN 6999
    ELSE IF item.product_id = 2 THEN 4999
    ELSE IF item.product_id = 3 THEN 999
    ELSE item.unit_price

\* the order-item rows create_order builds for order new_id; the i-th item
\* (0-based) gets id max(id) + 1 + i, or 1 + i when the items store is empty
NewOrderItems(items, new_id, items_db) ==
    [k \in 1..Len(items) |->
        DictMerge(items[k],
            [id |-> IF items_db # <<>>
                    THEN SeqMax(Ids(items_db)) + 1 + (k - 1)
                    ELSE 1 + (k - 1),
             order_id |-> new_id,
             unit_price |-> ProductPrice(items[k]),
             subtotal |-> ProductPrice(items[k]) * items[k].quantity])]

\* total_amount = 0; for each item: total_amount += subtotal
RECURSIVE TotalAmount(_)
TotalAmount(rows) ==
    IF rows = <<>> THEN 0
    ELSE TotalAmount(SubSeq(rows, 1, Len(rows) - 1)) + rows[Len(rows)]["subtotal"]

\* [item for item in order_items_db if item["order_id"] == order_id]
RECURSIVE ItemsOf(_, _)
ItemsOf(items_db, order_id) ==
    IF items_db = <<>> THEN <<>>
    ELSE (IF items_db[1]["order_id"] = order_id THEN <<items_db[1]>> ELSE <<>>)
         \o ItemsOf(Tail(items_db), order_id)

\* bug variant: the rows of the deleted order stay in the items store
ItemsKept(items_db, order_id) == items_db

\* [item for item in order_items_db if item["order_id"] != order_id]
RECURSIVE ItemsNotOf(_, _)
ItemsNotOf(items_db, order_id) ==
    IF items_db = <<>> THEN <<>>
    ELSE (IF items_db[1]["order_id"] # order_id THEN <<items_db[1]>> ELSE <<>>)
         \o ItemsNotOf(Tail(items_db), order_id)

\* OrderResponse validation of a returned dict: status is a required string
OrderResponseOk(o) == o["status"] # None

\* the positions in orders_db of the orders GET /orders/ returns: those that
\* pass the status and user_id filters, then the slice [skip : skip + limit]
RECURSIVE Matching(_, _, _)
Matching(db, q, i) ==
    IF i > Len(db) THEN <<>>
    ELSE (IF /\ (q.status # None => db[i]["status"] = q.status)
             /\ (q.user_id # 0 => db[i]["user_id"] = q.user_id)
          THEN <<i>> ELSE <<>>) \o Matching(db, q, i + 1)

Selected(db, q) ==
    LET m == Matching(db, q, 1)
        hi == IF q.skip + q.limit < Len(m) THEN q.skip + q.limit ELSE Len(m)
    IN {m[k] : k \in (q.skip + 1)..hi}

create_order(order) ==
    /\ now < MaxClock
    /\ now' = now + 1
    /\ LET new_id == NextId(orders_db)
           new_order_items == NewOrderItems(order.items, new_id, order_items_db)
           new_order ==
               DictMerge([k \in (DOMAIN order) \ {"items"} |-> order[k]],
                   [id |-> new_id, created_at |-> Time(now),
                    updated_at |-> NoTime,
                    total_amount |-> TotalAmount(new_order_items)])
       IN /\ orders_db' = Append(orders_db, new_order)
          /\ assigned_ids' = [assigned_ids EXCEPT !.orders = @ \cup {new_id}]
          /\ order_items_db' = order_items_db \o new_order_items
          /\ resp' = [op |-> "create_order", id |-> new_id, status |-> 201,
                      request |-> order.items,
                      body |-> DictMerge(new_order, [items |-> new_order_items])]
    /\ UNCHANGED <<customers_db, products_db, threads, provider, nl_result,
                   es_log,
                   agent>>

get_orders(q) ==
    /\ LET sel == Selected(orders_db, q) IN
       \* for order in result: order["items"] = [...] writes into the stored dicts
       /\ orders_db' =
             [i \in 1..Len(orders_db) |->
                 IF i \in sel
                 THEN DictMerge(orders_db[i],
                          [items |-> ItemsOf(order_items_db, orders_db[i]["id"])])
                 ELSE orders_db[i]]
       /\ resp' = [op |-> "get_orders", id |-> 0,
                   status |-> IF \A i \in sel : OrderResponseOk(orders_db[i])
                              THEN 200 ELSE 500,
                   request |-> q, body |-> <<>>]
    /\ UNCHANGED <<now, customers_db, products_db, order_items_db, threads,
                   provider, nl_result, es_log,
                   agent, tasks, assigned_ids>>

get_order(order_id) ==
    /\ LET i == FindIndex(orders_db, order_id) IN
       resp' = IF i = 0
               THEN [op |-> "get_order", id |-> order_id, status |-> 404,
                     request |-> <<>>, body |-> <<>>]
               ELSE [op |-> "get_order", id |-> order_id,
                     status |-> IF OrderResponseOk(orders_db[i]) THEN 200 ELSE 500,
                     request |-> <<>>,
                     body |-> DictMerge(orders_db[i],
                                 [items |-> ItemsOf(order_items_db, order_id)])]
    /\ UNCHANGED <<now, customers_db, products_db, orders_db, order_items_db,
                   threads, provider, nl_result, es_log,
                   agent, tasks, assigned_ids>>

update_order(order_id, order) ==
    /\ LET i == FindIndex(orders_db, order_id) IN
       IF i = 0
       THEN /\ resp' = [op |-> "update_order", id |-> order_id, status |-> 404,
                        request |-> <<>>, body |-> <<>>]
            /\ UNCHANGED <<orders_db, now>>
       ELSE LET update_data == ExcludeUnset(order, OrderUpdateFields)
                updated_order ==
                    DictMerge(DictMerge(orders_db[i], update_data),
                              [updated_at |-> Time(now)])
            IN /\ now < MaxClock
               /\ now' = now + 1
               /\ orders_db' = [orders_db EXCEPT ![i] = updated_order]
               /\ resp' = [op |-> "update_order", id |-> order_id,
                           status |-> IF OrderResponseOk(updated_order)
                                      THEN 200 ELSE 500,
                           request |-> order,
                           body |-> DictMerge(updated_order,
                                       [items |-> ItemsOf(order_items_db, order_id)])]
    /\ UNCHANGED <<customers_db, products_db, order_items_db, threads, provider,
                   nl_result, es_log,
                   agent, tasks, assigned_ids>>

delete_order(order_id) ==
    /\ LET i == FindIndex(orders_db, order_id) IN
       IF i = 0
       THEN /\ resp' = [op |-> "delete_order", id |-> order_id, status |-> 404,
                        request |-> <<>>, body |-> <<>>]
            /\ UNCHANGED <<orders_db, order_items_db>>
       ELSE /\ orders_db' = Pop(orders_db, i)
            /\ order_items_db' = ItemsNotOf(order_items_db, order_id)
            /\ resp' = [op |-> "delete_order", id |-> order_id, status |-> 204,
                        request |-> <<>>, body |-> <<>>]
    /\ UNCHANGED <<now, customers_db, products_db, threads, provider, nl_result,
                   es_log,
                   agent, tasks, assigned_ids>>

---------------------------------------------------------------------------
(* langgraph.py: the checkpointed conversation demo *)

ThreadIds == {"t1", "t2"}
UserInputs == {"hello", "bye"}

\* what chat_model.invoke does inside the graph node: it returns an AIMessage
\* with one of these contents, or it raises
ModelReplies == {"answer"}
ModelOutcomes == ModelReplies \cup {"raise"}

SystemPrompt == [type |-> "SystemMessage", content |-> "helpful assistant"]
HumanMessage(text) == [type |-> "HumanMessage", content |-> text]
AIMessage(text) == [type |-> "AIMessage", content |-> text]

\* MessagesState: the channel "messages" is reduced by appending the update
\* (every message of a request is a new object with no id of its own)
AddMessages(left, right) == left \o right

\* _checkpointer_app.get_state(config).values.get("messages"): the messages of
\* the thread's latest checkpoint, None (here the empty list) for a new thread
\* bug variant: every config reads the state of the thread t1
GetStateOfFirstThread(thread_id) == threads["t1"]

GetState(thread_id) == threads[thread_id]

\* bug variant: the history is never seen, the prompt is injected every time
HasHistoryNever(thread_id) == FALSE

\* has_history = bool(snapshot and snapshot.values.get("messages"))
HasHistory(thread_id) == GetState(thread_id) # <<>>

\* input_messages of checkpointer_chat
InputMessages(thread_id, user_input) ==
    (IF ~HasHistory(thread_id) THEN <<SystemPrompt>> ELSE <<>>)
        \o <<HumanMessage(user_input)>>

\* POST /langgraph/checkpointer_chat. The graph first applies the input to the
\* thread's state, then runs the node "agent" (call_model), whose AIMessage is
\* appended. When the model raises, the handler answers 500; whether the
\* checkpoint of the applied input was already saved is left open.
checkpointer_chat(thread_id, user_input, outcome, input_saved) ==
    /\ Len(GetState(thread_id)) + 3 <= MaxHistory
    /\ LET input_messages == InputMessages(thread_id, user_input)
           after_input == AddMessages(GetState(thread_id), input_messages)
       IN IF outcome = "raise"
          THEN /\ threads' = IF input_saved
                             THEN [threads EXCEPT ![thread_id] = after_input]
                             ELSE threads
               /\ resp' = [op |-> "checkpointer_chat", thread_id |-> thread_id,
                           user_input |-> user_input, status |-> 500,
                           result |-> None, messages |-> <<>>]
          ELSE LET messages == AddMessages(after_input, <<AIMessage(outcome)>>)
               IN /\ input_saved
                  /\ threads' = [threads EXCEPT ![thread_id] = messages]
                  /\ resp' = [op |-> "checkpointer_chat", thread_id |-> thread_id,
                              user_input |-> user_input, status |-> 200,
                              result |-> messages[Len(messages)].content,
                              messages |-> messages]
    /\ UNCHANGED <<now, customers_db, products_db, orders_db, order_items_db,
                   provider, nl_result, es_log,
                   agent, tasks, assigned_ids>>

\* GET /langgraph/checkpointer_history
checkpointer_history(thread_id) ==
    /\ resp' = [op |-> "checkpointer_history", thread_id |-> thread_id,
                user_input |-> None, status |-> 200, result |-> None,
                messages |-> GetState(thread_id)]
    /\ UNCHANGED <<now, customers_db, products_db, orders_db, order_items_db,
                   threads, provider, nl_result, es_log,
                   agent, tasks, assigned_ids>>

---------------------------------------------------------------------------
(* langchain_service.py: convert_nl_to_es_query *)

(* A JSON value is a tagged record [t, v]: an object holds a function from   *)
(* its keys to values, a list a sequence of values, a string, a number and   *)
(* null a string.  The text the provider returns is a sequence of tokens:    *)
(* an opening or closing brace, an object key with its colon, an atom (a     *)
(* literal without braces) and prose.                                        *)

Obj(f) == [t |-> "obj", v |-> f]
List(seq) == [t |-> "list", v |-> seq]
Str(x) == [t |-> "str", v |-> x]
Num == [t |-> "num", v |-> "1"]
Null == [t |-> "null", v |-> "null"]

LBrace == <<"{", "">>
RBrace == <<"}", "">>
Prose == <<"txt", "">>
KeyTok(k) == <<"key", k>>
AtomTok(a) == <<"atom", a>>

AtomNames ==
    {"num", "null", "s:plain", "s:query", "s:bool", "s:must", "l:empty", "l:must"}

\* the value json.loads gives for an atom
AtomValue(a) ==
    CASE a = "num" -> Num
      [] a = "null" -> Null
      [] a = "s:plain" -> Str("plain")
      [] a = "s:query" -> Str("query")
      [] a = "s:bool" -> Str("bool")
      [] a = "s:must" -> Str("must")
      [] a = "l:empty" -> List(<<>>)
      [] a = "l:must" -> List(<<Str("must")>>)

JsonKeys == {"query", "bool", "must", "term"}

\* the JSON texts of nesting depth at most d that the provider may write:
\* an atom, the empty object, or an object with one member
RECURSIVE JsonTexts(_)
JsonTexts(d) ==
    {<<AtomTok(a)>> : a \in AtomNames} \cup {<<LBrace, RBrace>>} \cup
    (IF d = 0 THEN {}
     ELSE {<<LBrace, KeyTok(k)>> \o inner \o <<RBrace>> :
              k \in JsonKeys, inner \in JsonTexts(d - 1)})

\* what the provider returns: JSON text, possibly cut short, possibly wrapped
\* in prose or followed by a stray brace; or the call raises
ProviderContents ==
    {pre \o SubSeq(body, 1, Len(body) - cut) \o post :
        pre \in {<<>>, <<Prose>>},
        body \in JsonTexts(MaxDepth),
        cut \in {0, 1},
        post \in {<<>>, <<Prose>>, <<RBrace>>}}

ProviderRaises == <<<<"raise", "">>>>

ProviderOutcomes == ProviderContents \cup {ProviderRaises}

QueryTexts == {"q1", "q2"}

\* re.search(r'\{[\s\S]*\}', s): greedy, from the first opening brace to the
\* last closing brace; without a match the whole text is kept
JsonMatch(toks) ==
    LET opens == {i \in 1..Len(toks) : toks[i] = LBrace}
        closes == {i \in 1..Len(toks) : toks[i] = RBrace}
    IN IF opens # {} /\ closes # {}
       THEN LET first == CHOOSE i \in opens : \A j \in opens : i <= j
                last == CHOOSE i \in closes : \A j \in closes : j <= i
            IN IF first < last THEN SubSeq(toks, first, last) ELSE toks
       ELSE toks

ParseFail == [ok |-> FALSE, val |-> Null, next |-> 0]

\* the JSON decoder on the tokens from position i: the value and the position
\* after it, or a failure
RECURSIVE ParseValue(_, _)
ParseValue(toks, i) ==
    IF i > Len(toks) THEN ParseFail
    ELSE IF toks[i][1] = "atom"
    THEN [ok |-> TRUE, val |-> AtomValue(toks[i][2]), next |-> i + 1]
    ELSE IF toks[i] = LBrace
    THEN IF i + 1 <= Len(toks) /\ toks[i + 1] = RBrace
         THEN [ok |-> TRUE, val |-> Obj(<<>>), next |-> i + 2]
         ELSE IF i + 1 <= Len(toks) /\ toks[i + 1][1] = "key"
         THEN LET inner == ParseValue(toks, i + 2) IN
              IF /\ inner.ok
                 /\ inner.next <= Len(toks)
                 /\ toks[inner.next] = RBrace
              THEN [ok |-> TRUE,
                    val |-> Obj(toks[i + 1][2] :> inner.val),
                    next |-> inner.next + 1]
              ELSE ParseFail
         ELSE ParseFail
    ELSE ParseFail

\* json.loads: the text must be exactly one value; ok = FALSE is JSONDecodeError
JsonLoads(toks) ==
    LET r == ParseValue(toks, 1) IN
    IF r.ok /\ r.next = Len(toks) + 1
    THEN [ok |-> TRUE, val |-> r.val]
    ELSE [ok |-> FALSE, val |-> Null]

\* the highlight block both paths attach
HighlightBlock ==
    Obj([fields |-> Obj([full_content |-> Obj(<<>>),
                         messages_content |-> Obj(<<>>),
                         summary |-> Obj(<<>>)]),
         pre_tags |-> List(<<Str("<em>")>>),
         post_tags |-> List(<<Str("</em>")>>)])

\* bug variant: the basic query is returned without the highlight block
FallbackQueryNoHighlight(query_text) ==
    Obj([query |->
            Obj([bool |->
                Obj([must |->
                    List(<<Obj([match |->
                               Obj([full_content |-> Str(query_text)])])>>)])])])

\* the basic query both except branches return
FallbackQuery(query_text) ==
    Obj([query |->
            Obj([bool |->
                Obj([must |->
                    List(<<Obj([match |->
                               Obj([full_content |-> Str(query_text)])])>>)])]),
         highlight |-> HighlightBlock])

\* Python's "key in x" raises TypeError for a number and for None
InRaises(x) == x.t \in {"num", "null"}

\* Python's "key in x": a key of a dict, an element of a list, a substring of
\* a string (none of the strings of the model contains another one)
In(key, x) ==
    CASE x.t = "obj" -> key \in DOMAIN x.v
      [] x.t = "list" -> \E i \in 1..Len(x.v) : x.v[i].t = "str" /\ x.v[i].v = key
      [] x.t = "str" -> x.v = key
      [] OTHER -> FALSE

\* x[key] raises TypeError unless x is a dict (the key was found to be "in" x)
GetRaises(x) == x.t # "obj"

\* the normalisation of the parsed value, lines 476-483: TRUE when one of its
\* steps raises (the outer except then returns the basic query)
NormaliseRaises(parsed) ==
    \/ InRaises(parsed)
    \/ /\ In("query", parsed)
       /\ \/ GetRaises(parsed)
          \/ InRaises(parsed.v["query"])
          \/ /\ In("bool", parsed.v["query"])
             /\ \/ GetRaises(parsed.v["query"])
                \/ InRaises(parsed.v["query"].v["bool"])
                \/ /\ ~In("must", parsed.v["query"].v["bool"])
                   /\ parsed.v["query"].v["bool"].t # "obj"
    \/ /\ ~In("query", parsed)
       /\ \/ InRaises(parsed)
          \/ /\ In("bool", parsed)
             /\ \/ GetRaises(parsed)
                \/ InRaises(parsed.v["bool"])
                \/ /\ ~In("must", parsed.v["bool"])
                   /\ parsed.v["bool"].t # "obj"

\* the value of es_query["query"] after lines 476-483, when no step raised
NormalisedQuery(parsed) ==
    LET q == IF In("query", parsed) THEN parsed.v["query"] ELSE parsed IN
    IF ~In("bool", q)
    THEN Obj([bool |-> Obj([must |-> List(<<q>>)])])
    ELSE IF ~In("must", q.v["bool"])
         THEN Obj(DictMerge(q.v,
                  [bool |-> Obj(DictMerge(q.v["bool"].v, [must |-> List(<<>>)]))]))
         ELSE q

\* convert_nl_to_es_query(query_text, client), client["chat_model"] behaving
\* as outcome says
ConvertNlToEsQuery(query_text, outcome) ==
    IF outcome = ProviderRaises
    THEN FallbackQuery(query_text)
    ELSE LET loaded == JsonLoads(JsonMatch(outcome)) IN
         IF ~loaded.ok THEN FallbackQuery(query_text)
         ELSE IF NormaliseRaises(loaded.val) THEN FallbackQuery(query_text)
         ELSE Obj(DictMerge(
                  IF In("query", loaded.val) THEN loaded.val.v ELSE <<>>,
                  [query |-> NormalisedQuery(loaded.val),
                   highlight |-> HighlightBlock]))

NoResult == <<>>

\* one call of the translator
convert_nl_to_es_query(query_text) ==
    /\ nl_result' = [query_text |-> query_text,
                     value |-> ConvertNlToEsQuery(query_text, provider)]
    /\ UNCHANGED <<now, resp, customers_db, products_db, orders_db,
                   order_items_db, threads, provider, es_log,
                   agent, tasks, assigned_ids>>

---------------------------------------------------------------------------
(* conversation_search.py and the vector search of langchain_service.py *)

(* Scores and thresholds are in thousandths: 0.3 is 300, 1.0 is 1000. *)

\* the JSON bodies of POST /conversations/search_customers: query_text may be
\* missing, page and page_size are any integers
SearchBodies ==
    {[page |-> 1, page_size |-> 10]} \cup
    [query_text : {"q1"}, advisor_id : {None, "a1"}, page : {0, 1},
     page_size : {-1, 10}]

\* the JSON bodies of POST /conversations/vector-search-customers after the
\* defaults were filled (similarity_threshold: 0.3, k: 50)
VectorSearchBodies ==
    {[page |-> 1, page_size |-> 10],
     [query_text |-> "q1", advisor_id |-> None, page |-> 0, page_size |-> -1,
      similarity_threshold |-> 300, k |-> 50]} \cup
    [query_text : {"q1"}, advisor_id : {None, "a1"}, page : {1},
     page_size : {10}, similarity_threshold : {300, 1500}, k : {50}]

\* schema validation of ConversationSearchQuery and CustomerVectorSearchQuery:
\* query_text is the one required field, and no field carries a range
ValidBody(body) == "query_text" \in DOMAIN body

\* preprocess_query_text on a text without surrounding blanks that contains
\* none of the keys of synonyms_map (the query texts of the model are such)
PreprocessQueryText(query_text) == query_text

\* llm_preprocess_query: the model's text, or the basic preprocessing when
\* the model raises or returns fewer than two characters
LlmPreprocessQuery(llm, query_text) ==
    IF llm \in {"raise", ""} THEN PreprocessQueryText(query_text) ELSE llm

LlmOutcomes == {"raise", "", "q1 expanded"}

\* what embedding_model.aembed_query does
EmbedOutcomes == {"raise", "none", "empty", "vector"}

QueryVector == <<12, 34, 56>>

\* the absent vector (Python None)
NoVector == <<"None">>

\* bug variant: a failed embedding yields a vector of zeros
GenerateQueryVectorZeros(llm, embed, query_text) ==
    IF embed = "raise"
    THEN [vector |-> <<0, 0, 0>>, processed_query |-> query_text]
    ELSE [vector |-> CASE embed = "none" -> <<0, 0, 0>>
                       [] embed = "empty" -> <<0, 0, 0>>
                       [] embed = "vector" -> QueryVector,
          processed_query |-> LlmPreprocessQuery(llm, query_text)]

\* generate_query_vector_with_preprocessing: (vector, processed_query), and
\* (None, query_text) when the embedding call raises
GenerateQueryVector(llm, embed, query_text) ==
    IF embed = "raise"
    THEN [vector |-> NoVector, processed_query |-> query_text]
    ELSE [vector |-> CASE embed = "none" -> NoVector
                       [] embed = "empty" -> <<>>
                       [] embed = "vector" -> QueryVector,
          processed_query |-> LlmPreprocessQuery(llm, query_text)]

\* Python's "not query_vector": None and the empty list are falsy
Falsy(vector) == vector = NoVector \/ vector = <<>>

\* the filter clauses built from advisor_id (the time range is never sent)
CombinedFilter(body) ==
    IF body.advisor_id # None /\ body.advisor_id # "all"
    THEN <<[term |-> body.advisor_id]>>
    ELSE <<>>

\* the hits the search engine answers with: raw score and _source; the last
\* list holds a hit whose _source lacks customer_id
HitLists ==
    {<<>>,
     <<[score |-> 900, customer_id |-> "c1"],
       [score |-> 250, customer_id |-> "c2"]>>,
     <<[score |-> 1500, customer_id |-> "c1"],
       [score |-> 1800, customer_id |-> "c1"],
       [score |-> 1900, customer_id |-> "c2"]>>,
     <<[score |-> 950]>>}

\* the environment of one vector search: whether the query dump directory can
\* be written, what es_client.search does for the kNN body and for the
\* script_score body, and the hits it answers
SearchEnvs ==
    [fs_ok : BOOLEAN, knn : {"ok", "raise"}, script : {"ok", "raise"},
     hits : HitLists]

MinOf(a, b) == IF a < b THEN a ELSE b
MaxOf(a, b) == IF a > b THEN a ELSE b

KnnBody(query_vector, filters, k) ==
    [kind |-> "knn", field |-> "content_vector", query_vector |-> query_vector,
     k |-> MinOf(k * 5, 200), num_candidates |-> MinOf(k * 20, 2000),
     filter |-> filters, size |-> k]

ScriptScoreBody(query_vector, filters, k) ==
    [kind |-> "script_score", field |-> "content_vector",
     query_vector |-> query_vector, k |-> 0, num_candidates |-> 0,
     filter |-> filters, size |-> k]

\* the es_client.search calls of vector_search_conversations, in order: the
\* kNN call unless writing the dump raised first, then the script_score call
\* when the kNN attempt raised and the dump could be written
VectorSearchCalls(query_vector, filters, k, env) ==
    IF Falsy(query_vector) THEN <<>>
    ELSE IF ~env.fs_ok THEN <<>>
    ELSE IF env.knn = "ok" THEN <<KnnBody(query_vector, filters, k)>>
    ELSE <<KnnBody(query_vector, filters, k),
           ScriptScoreBody(query_vector, filters, k)>>

\* which query answered: "knn", "script_score", or "none" when both attempts
\* raised (the outer except returns the empty result)
AnsweredBy(query_vector, env) ==
    IF Falsy(query_vector) \/ ~env.fs_ok THEN "none"
    ELSE IF env.knn = "ok" THEN "knn"
    ELSE IF env.script = "ok" THEN "script_score"
    ELSE "none"

\* whether a call of es_client.search raised: the kNN call is the first one
\* made, and it is made once the dump was written
EsRaised(query_vector, env) ==
    ~Falsy(query_vector) /\ env.fs_ok /\ env.knn = "raise"

\* actual_score = hit["_score"] - 1.0 if used_script_score else hit["_score"]
ActualScore(hit, used_script_score) ==
    IF used_script_score THEN hit.score - 1000 ELSE hit.score

\* bug variant: the hits are filtered at the requested threshold itself
DynamicThresholdNominal(similarity_threshold) == similarity_threshold

\* dynamic_threshold = max(similarity_threshold * 0.8, 0.3)
DynamicThreshold(similarity_threshold) ==
    MaxOf((similarity_threshold * 8) \div 10, 300)

\* the loop of lines 817-828: hits at or above the threshold, rescored
RECURSIVE FilterHits(_, _, _)
FilterHits(hits, used_script_score, similarity_threshold) ==
    IF hits = <<>> THEN <<>>
    ELSE LET actual == ActualScore(hits[1], used_script_score) IN
         (IF actual >= DynamicThreshold(similarity_threshold)
          THEN <<[hits[1] EXCEPT !.score = actual]>> ELSE <<>>)
         \o FilterHits(Tail(hits), used_script_score, similarity_threshold)

\* list.sort(key=lambda x: x["_score"], reverse=True): stable, descending
RECURSIVE InsertDesc(_, _)
InsertDesc(sorted, hit) ==
    IF sorted = <<>> THEN <<hit>>
    ELSE IF sorted[1].score >= hit.score
         THEN <<sorted[1]>> \o InsertDesc(Tail(sorted), hit)
         ELSE <<hit>> \o sorted

RECURSIVE SortDesc(_)
SortDesc(hits) ==
    IF hits = <<>> THEN <<>>
    ELSE InsertDesc(SortDesc(SubSeq(hits, 1, Len(hits) - 1)), hits[Len(hits)])

\* vector_search_conversations: the hits of the response it returns
VectorSearchConversations(query_vector, similarity_threshold, env) ==
    LET by == AnsweredBy(query_vector, env) IN
    IF by = "none" THEN <<>>
    ELSE SortDesc(FilterHits(env.hits, by = "script_score", similarity_threshold))

\* the thresholds vector_search_conversations is called with (0.2, 0.5, 1.0)
SimilarityThresholds == {200, 500, 1000}

\* the response vector_search_conversations returns: the literal empty
\* response of lines 714-715 and 838-840, or the engine's response with its
\* hits replaced and its total overwritten (lines 833-834)
VectorSearchResponse(query_vector, similarity_threshold, env) ==
    IF AnsweredBy(query_vector, env) = "none"
    THEN [hits |-> <<>>, total |-> 0]
    ELSE LET filtered_hits ==
                 VectorSearchConversations(query_vector, similarity_threshold, env)
         IN [hits |-> filtered_hits, total |-> Len(filtered_hits)]

\* one call of vector_search_conversations(es_client, query_vector, filters,
\* k, similarity_threshold), es_client and the file system behaving as env says
vector_search_conversations(query_vector, filters, k, similarity_threshold, env) ==
    /\ es_log' = VectorSearchCalls(query_vector, filters, k, env)
    /\ resp' = [op |-> "vector_search_conversations",
                similarity_threshold |-> similarity_threshold,
                answered_by |-> AnsweredBy(query_vector, env),
                engine_hits |-> IF AnsweredBy(query_vector, env) = "none"
                                THEN <<>> ELSE env.hits,
                response |-> VectorSearchResponse(query_vector,
                                 similarity_threshold, env)]
    /\ UNCHANGED <<now, customers_db, products_db, orders_db, order_items_db,
                   threads, provider, nl_result,
                   agent, tasks, assigned_ids>>

\* aggregate_customer_data raises KeyError on a hit without customer_id
AggregateRaises(hits) ==
    \E i \in 1..Len(hits) : "customer_id" \notin DOMAIN hits[i]

\* the number of entries aggregate_customer_data returns: one per customer_id
CustomerCount(hits) == Cardinality({hits[i].customer_id : i \in 1..Len(hits)})

\* POST /conversations/vector-search-customers
vector_search_customers(body, llm, embed, env) ==
    /\ IF ~ValidBody(body)
       THEN \* rejected by the schema validation, the handler does not run
            /\ resp' = [op |-> "vector_search_customers", request |-> body,
                        status |-> 422, detail |-> "validation error",
                        total |-> 0, embed |-> "not called",
                        es_raised |-> FALSE]
            /\ es_log' = <<>>
       ELSE LET gen == GenerateQueryVector(llm, embed, body.query_text) IN
            IF Falsy(gen.vector)
            THEN \* HTTPException(400, "无法生成查询向量")
                 /\ resp' = [op |-> "vector_search_customers", request |-> body,
                             status |-> 400,
                             detail |-> "cannot generate query vector",
                             total |-> 0, embed |-> embed,
                             es_raised |-> FALSE]
                 /\ es_log' = <<>>
            ELSE LET hits == VectorSearchConversations(gen.vector,
                                 body.similarity_threshold, env)
                 IN /\ es_log' = VectorSearchCalls(gen.vector,
                                      CombinedFilter(body), body.k, env)
                    /\ resp' =
                         IF AggregateRaises(hits)
                         THEN \* HTTPException(500, "向量搜索客户失败: ...")
                              [op |-> "vector_search_customers",
                               request |-> body, status |-> 500,
                               detail |-> "vector search of customers failed",
                               total |-> 0, embed |-> embed,
                               es_raised |-> EsRaised(gen.vector, env)]
                         ELSE [op |-> "vector_search_customers",
                               request |-> body, status |-> 200,
                               detail |-> None, total |-> CustomerCount(hits),
                               embed |-> embed,
                               es_raised |-> EsRaised(gen.vector, env)]
    /\ UNCHANGED <<now, customers_db, products_db, orders_db, order_items_db,
                   threads, provider, nl_result,
                   agent, tasks, assigned_ids>>

\* es_query["query"]["bool"]["must"].append(...) raises unless must is a list
\* (it is reached only when a filter is to be added)
AppendFilterRaises(es_query, filters) ==
    /\ filters # <<>>
    /\ \/ es_query.v["query"].t # "obj"
       \/ es_query.v["query"].v["bool"].t # "obj"
       \/ es_query.v["query"].v["bool"].v["must"].t # "list"

AggBody(es_query, filters, page_size) ==
    [kind |-> "agg", query |-> es_query, filter |-> filters, size |-> 0,
     buckets |-> page_size]

\* what es_client.search does for the aggregation body: it raises, or it
\* answers this many customer buckets
AggOutcomes == {"raise", "0", "2"}

\* POST /conversations/search_customers
search_customers(body, es) ==
    /\ IF ~ValidBody(body)
       THEN /\ resp' = [op |-> "search_customers", request |-> body,
                        status |-> 422, detail |-> "validation error",
                        total |-> 0]
            /\ es_log' = <<>>
            /\ UNCHANGED nl_result
       ELSE LET es_query == ConvertNlToEsQuery(body.query_text, provider)
                filters == CombinedFilter(body)
            IN /\ nl_result' = [query_text |-> body.query_text, value |-> es_query]
               /\ IF AppendFilterRaises(es_query, filters)
                  THEN \* HTTPException(500, "搜索客户失败: ...")
                       /\ es_log' = <<>>
                       /\ resp' = [op |-> "search_customers", request |-> body,
                                   status |-> 500,
                                   detail |-> "search of customers failed",
                                   total |-> 0]
                  ELSE /\ es_log' = <<AggBody(es_query, filters, body.page_size)>>
                       /\ resp' =
                            IF es = "raise"
                            THEN [op |-> "search_customers", request |-> body,
                                  status |-> 500,
                                  detail |-> "search of customers failed",
                                  total |-> 0]
                            ELSE [op |-> "search_customers", request |-> body,
                                  status |-> 200, detail |-> None,
                                  total |-> IF es = "0" THEN 0 ELSE 2]
    /\ UNCHANGED <<now, customers_db, products_db, orders_db, order_items_db,
                   threads, provider,
                   agent, tasks, assigned_ids>>

---------------------------------------------------------------------------
(* langchain_service.py: calculate_weighted_similarity *)

(* Scores are in thousandths and weights in tenths; a result is the pair of
   the weighted sum and the total weight, the quotient the code returns. *)

ScoreValues == {700, 900}

RECURSIVE SeqsUpTo(_, _)
SeqsUpTo(S, n) ==
    IF n = 0 THEN {<<>>}
    ELSE LET shorter == SeqsUpTo(S, n - 1)
         IN shorter \cup {Append(q, x) : q \in {r \in shorter : Len(r) = n - 1},
                                           x \in S}

\* the lists of scores of the model
ScoreLists ==
    SeqsUpTo(ScoreValues, MaxScores) \cup {<<900, 800, 700>>, <<700, 900, 800>>}

\* one insertion of sorted(scores, reverse=True)
RECURSIVE InsertScore(_, _)
InsertScore(sorted, score) ==
    IF sorted = <<>> THEN <<score>>
    ELSE IF sorted[1] >= score
         THEN <<sorted[1]>> \o InsertScore(Tail(sorted), score)
         ELSE <<score>> \o sorted

\* sorted(scores, reverse=True)
RECURSIVE SortedReverse(_)
SortedReverse(scores) ==
    IF scores = <<>> THEN <<>>
    ELSE InsertScore(SortedReverse(SubSeq(scores, 1, Len(scores) - 1)),
                     scores[Len(scores)])

\* bug variant: the weight keeps falling below 0.2
WeightNoFloor(i) == 10 - i * 2

\* weight = max(0.2, 1.0 - i * 0.2), i counted from 0
Weight(i) == MaxOf(2, 10 - i * 2)

\* the loop of lines 931-934 from index i on: (weighted_sum, total_weight)
RECURSIVE WeightedLoop(_, _, _, _)
WeightedLoop(sorted_scores, i, weighted_sum, total_weight) ==
    IF i >= Len(sorted_scores)
    THEN [weighted_sum |-> weighted_sum, total_weight |-> total_weight]
    ELSE WeightedLoop(sorted_scores, i + 1,
                      weighted_sum + sorted_scores[i + 1] * Weight(i),
                      total_weight + Weight(i))

\* 0.0
ZeroSimilarity == [weighted_sum |-> 0, total_weight |-> 1]

\* calculate_weighted_similarity(scores)
CalculateWeightedSimilarity(scores) ==
    IF scores = <<>> THEN ZeroSimilarity
    ELSE LET acc == WeightedLoop(SortedReverse(scores), 0, 0, 0)
         IN IF acc.total_weight > 0 THEN acc ELSE ZeroSimilarity

\* one call of calculate_weighted_similarity
calculate_weighted_similarity(scores) ==
    /\ resp' = [op |-> "calculate_weighted_similarity", scores |-> scores,
                result |-> CalculateWeightedSimilarity(scores)]
    /\ UNCHANGED <<now, customers_db, products_db, orders_db, order_items_db,
                   threads, provider, nl_result, es_log,
                   agent, tasks, assigned_ids>>

---------------------------------------------------------------------------
(* math_tools.py: SafeMathEvaluator and safe_calculator *)

(* A number is a fraction num/den (den > 0) with its Python type: "int",
   "float" or "bool".  An expression is given by the tree ast.parse builds
   for it. *)

Number(kind, num, den) == [kind |-> kind, num |-> num, den |-> den]
IntVal(n) == Number("int", n, 1)

\* the keys of SafeMathEvaluator.OPERATORS
OPERATORS == {"Add", "Sub", "Mult", "Div", "Pow", "USub", "UAdd", "Mod"}

\* the keys of SafeMathEvaluator.FUNCTIONS
FUNCTIONS == {"abs", "round", "max", "min", "sum"}

\* the names of line 54, to three decimals
NamedConstants == [pi |-> Number("float", 3142, 1000), e |-> Number("float", 2718, 1000)]

\* tree nodes
ConstantNode(kind, value) == [node |-> "Constant", kind |-> kind, value |-> value]
NameNode(id) == [node |-> "Name", id |-> id]
BinOpNode(op, left, right) == [node |-> "BinOp", op |-> op, left |-> left, right |-> right]
UnaryOpNode(op, operand) == [node |-> "UnaryOp", op |-> op, operand |-> operand]
CallNode(func, args, keywords) ==
    [node |-> "Call", func |-> func, args |-> args, keywords |-> keywords]
OtherNode(type) == [node |-> "Other", type |-> type]

\* node.func that is not an ast.Name (an attribute such as os.system)
NotAName == "<attribute>"

\* an evaluation that returned val, or raised; invoked lists the functions
\* that were called on the way
Returned(val, invoked) == [ok |-> TRUE, val |-> val, invoked |-> invoked]
Raised(invoked) == [ok |-> FALSE, val |-> IntVal(0), invoked |-> invoked]

Abs(n) == IF n < 0 THEN -n ELSE n

RECURSIVE IntPow(_, _)
IntPow(b, n) == IF n = 0 THEN 1 ELSE b * IntPow(b, n - 1)

IsFloat(x) == x.kind = "float"
ResultKind(x, y) == IF IsFloat(x) \/ IsFloat(y) THEN "float" ELSE "int"
Less(x, y) == x.num * y.den < y.num * x.den

\* op(left, right) of line 65: the value, or <<>> when the operator raises
\* (ZeroDivisionError).  Powers are taken to int exponents only.
ApplyBinOp(op, x, y) ==
    CASE op = "Add" -> <<Number(ResultKind(x, y), x.num * y.den + y.num * x.den,
                               x.den * y.den)>>
      [] op = "Sub" -> <<Number(ResultKind(x, y), x.num * y.den - y.num * x.den,
                               x.den * y.den)>>
      [] op = "Mult" -> <<Number(ResultKind(x, y), x.num * y.num, x.den * y.den)>>
      [] op = "Div" ->
            IF y.num = 0 THEN <<>>
            ELSE <<Number("float",
                          (IF y.num < 0 THEN -1 ELSE 1) * x.num * y.den,
                          x.den * Abs(y.num))>>
      [] op = "Mod" ->
            IF y.num = 0 THEN <<>>
            ELSE LET a == x.num * y.den
                     b == y.num * x.den
                     r == IF b > 0 THEN a % b ELSE -((-a) % (-b))
                 IN <<Number(ResultKind(x, y), r, x.den * y.den)>>
      [] op = "Pow" /\ y.den = 1 /\ y.num >= 0 ->
            <<Number(ResultKind(x, y), IntPow(x.num, y.num), IntPow(x.den, y.num))>>
      [] op = "Pow" /\ y.den = 1 /\ y.num < 0 ->
            IF x.num = 0 THEN <<>>
            ELSE <<Number("float",
                          (IF x.num < 0 /\ (-y.num) % 2 = 1 THEN -1 ELSE 1)
                             * IntPow(x.den, -y.num),
                          IntPow(Abs(x.num), -y.num))>>

\* op(operand) of line 72
ApplyUnaryOp(op, x) ==
    CASE op = "USub" -> Number(IF IsFloat(x) THEN "float" ELSE "int", -x.num, x.den)
      [] op = "UAdd" -> Number(IF IsFloat(x) THEN "float" ELSE "int", x.num, x.den)

\* round(x): to the nearest int, a tie to the even one
RoundHalfEven(x) ==
    LET twice == 2 * x.num
        fl == x.num \div x.den
    IN IF (twice - 2 * fl * x.den) < x.den THEN fl
       ELSE IF (twice - 2 * fl * x.den) > x.den THEN fl + 1
       ELSE IF fl % 2 = 0 THEN fl ELSE fl + 1

RECURSIVE Extreme(_, _)
Extreme(args, wantMax) ==
    IF Len(args) = 1 THEN args[1]
    ELSE LET rest == Extreme(Tail(args), wantMax)
         IN IF wantMax
            THEN (IF Less(args[1], rest) THEN rest ELSE args[1])
            ELSE (IF Less(rest, args[1]) THEN rest ELSE args[1])

\* self.FUNCTIONS[func_name](*args): the value, or <<>> when the builtin
\* raises TypeError (a wrong number of arguments; a number where an iterable
\* is wanted, which is every call of sum and every one-argument max or min)
ApplyFunction(func_name, args) ==
    CASE func_name = "abs" ->
            IF Len(args) = 1
            THEN <<Number(IF IsFloat(args[1]) THEN "float" ELSE "int",
                          Abs(args[1].num), args[1].den)>>
            ELSE <<>>
      [] func_name = "round" ->
            (CASE Len(args) = 1 -> <<IntVal(RoundHalfEven(args[1]))>>
               [] Len(args) = 2 /\ IsFloat(args[2]) -> <<>>
               [] Len(args) = 2 /\ ~IsFloat(args[2]) /\ ~IsFloat(args[1])
                     /\ args[2].num >= 0 -> <<IntVal(args[1].num)>>
               [] Len(args) \notin {1, 2} -> <<>>)
      [] func_name \in {"max", "min"} ->
            IF Len(args) >= 2 THEN <<Extreme(args, func_name = "max")>> ELSE <<>>
      [] func_name = "sum" -> <<>>

\* SafeMathEvaluator._eval_node, and the list comprehension of line 79
RECURSIVE EvalNode(_)
RECURSIVE EvalArgs(_, _, _)
EvalArgs(args, i, acc) ==
    IF i > Len(args) THEN [ok |-> TRUE, vals |-> acc.vals, invoked |-> acc.invoked]
    ELSE LET a == EvalNode(args[i])
         IN IF ~a.ok
            THEN [ok |-> FALSE, vals |-> <<>>, invoked |-> acc.invoked \cup a.invoked]
            ELSE EvalArgs(args, i + 1,
                          [vals |-> Append(acc.vals, a.val),
                           invoked |-> acc.invoked \cup a.invoked])

EvalNode(node) ==
    CASE node.node = "Constant" ->
            IF node.kind \in {"int", "float", "bool"}
            THEN Returned(Number(node.kind, node.value, 1), {})
            ELSE Raised({})
      [] node.node = "Name" ->
            IF node.id \in DOMAIN NamedConstants
            THEN Returned(NamedConstants[node.id], {})
            ELSE Raised({})
      [] node.node = "BinOp" ->
            LET left == EvalNode(node.left) IN
            IF ~left.ok THEN Raised(left.invoked)
            ELSE LET right == EvalNode(node.right)
                     invoked == left.invoked \cup right.invoked
                 IN IF ~right.ok THEN Raised(invoked)
                    ELSE IF node.op \notin OPERATORS THEN Raised(invoked)
                    ELSE LET r == ApplyBinOp(node.op, left.val, right.val)
                         IN IF r = <<>> THEN Raised(invoked)
                            ELSE Returned(r[1], invoked)
      [] node.node = "UnaryOp" ->
            LET operand == EvalNode(node.operand) IN
            IF ~operand.ok THEN Raised(operand.invoked)
            ELSE IF node.op \notin OPERATORS THEN Raised(operand.invoked)
            ELSE Returned(ApplyUnaryOp(node.op, operand.val), operand.invoked)
      [] node.node = "Call" ->
            IF node.func \notin FUNCTIONS THEN Raised({})
            ELSE LET args == EvalArgs(node.args, 1, [vals |-> <<>>, invoked |-> {}])
                 IN IF ~args.ok THEN Raised(args.invoked)
                    ELSE LET r == ApplyFunction(node.func, args.vals)
                             invoked == args.invoked \cup {node.func}
                         IN IF r = <<>> THEN Raised(invoked)
                            ELSE Returned(r[1], invoked)
      [] node.node = "Other" -> Raised({})

\* what ast.parse makes of an input that is no expression
SyntaxError == [node |-> "SyntaxError"]

\* SafeMathEvaluator.evaluate: every exception becomes a ValueError
Evaluate(parsed) ==
    IF parsed = SyntaxError THEN Raised({}) ELSE EvalNode(parsed)

\* the string safe_calculator returns: the text 计算错误: ... ("calc error"), or
\* the number written out (an integral float without its decimal point)
ErrorText(invoked) ==
    [text |-> "calc error", num |-> 0, den |-> 1, invoked |-> invoked]

FormatResult(val, invoked) ==
    CASE val.kind = "float" /\ val.num % val.den = 0 ->
            [text |-> "int", num |-> val.num \div val.den, den |-> 1,
             invoked |-> invoked]
      [] val.kind = "float" /\ val.num % val.den # 0 ->
            [text |-> "float", num |-> val.num, den |-> val.den, invoked |-> invoked]
      [] val.kind = "int" ->
            [text |-> "int", num |-> val.num, den |-> 1, invoked |-> invoked]
      [] val.kind = "bool" ->
            [text |-> IF val.num = 1 THEN "True" ELSE "False", num |-> val.num,
             den |-> 1, invoked |-> invoked]

SafeCalculator(parsed) ==
    LET result == Evaluate(parsed)
    IN IF result.ok THEN FormatResult(result.val, result.invoked)
       ELSE ErrorText(result.invoked)

\* the expressions of the model
Leaves ==
    {ConstantNode("int", 2), ConstantNode("int", 0), ConstantNode("str", 0),
     ConstantNode("bool", 1), NameNode("pi"), NameNode("os")}

Args == {<<l>> : l \in Leaves} \cup {<<l, ConstantNode("int", 2)>> : l \in Leaves}

Expressions ==
    Leaves
    \cup {BinOpNode(op, l, r) : op \in {"Add", "Div", "BitXor"}, l \in Leaves,
                                r \in Leaves}
    \cup {UnaryOpNode(op, l) : op \in {"USub", "Invert"}, l \in Leaves}
    \cup {CallNode(f, a, k) : f \in {"abs", "max", "eval", NotAName}, a \in Args,
                              k \in {0, 1}}
    \cup {OtherNode("Compare"), SyntaxError,
          \* 2+3*4 and 2**10
          BinOpNode("Add", ConstantNode("int", 2),
                    BinOpNode("Mult", ConstantNode("int", 3), ConstantNode("int", 4))),
          BinOpNode("Pow", ConstantNode("int", 2), ConstantNode("int", 10)),
          \* abs(eval(2)), eval(abs(2)), abs(-2) ^ 2, sum(2, 2)
          CallNode("abs", <<CallNode("eval", <<ConstantNode("int", 2)>>, 0)>>, 0),
          CallNode("eval", <<CallNode("abs", <<ConstantNode("int", 2)>>, 0)>>, 0),
          BinOpNode("BitXor",
                    CallNode("abs", <<UnaryOpNode("USub", ConstantNode("int", 2))>>, 0),
                    ConstantNode("int", 2)),
          CallNode("sum", <<ConstantNode("int", 2), ConstantNode("int", 2)>>, 0),
          \* round(5/2), round(5/2, ndigits=1), 2 % -3
          CallNode("round", <<BinOpNode("Div", ConstantNode("int", 5),
                                        ConstantNode("int", 2))>>, 0),
          CallNode("round", <<BinOpNode("Div", ConstantNode("int", 5),
                                        ConstantNode("int", 2))>>, 1),
          BinOpNode("Mod", ConstantNode("int", 2),
                    UnaryOpNode("USub", ConstantNode("int", 3)))}

\* one call of the tool safe_calculator
safe_calculator(parsed) ==
    /\ resp' = [op |-> "safe_calculator", expression |-> parsed,
                result |-> SafeCalculator(parsed)]
    /\ UNCHANGED <<now, customers_db, products_db, orders_db, order_items_db,
                   threads, provider, nl_result, es_log,
                   agent, tasks, assigned_ids>>

---------------------------------------------------------------------------
(* llm_service.py: LLMService.invoke_with_tools, and llmtest.py: llm_tool_use *)

SystemMessage(text) == [type |-> "SystemMessage", content |-> text]
ToolMessage(content, tool_call_id) ==
    [type |-> "ToolMessage", content |-> content, tool_call_id |-> tool_call_id]

\* the model's response: an AIMessage with its content and its tool_calls
AIResponse(content, tool_calls) ==
    [type |-> "AIMessage", content |-> content, tool_calls |-> tool_calls]

\* AVAILABLE_TOOLS of app/tools/__init__.py
AVAILABLE_TOOLS == {"safe_calculator", "current_date", "current_time"}

\* the names a model may put into a tool call: tools that were bound, and a
\* name that no bound tool has
RequestedNames == {"safe_calculator", "current_time", "no_such_tool"}

\* the tool_calls of a response: the i-th call has the id "call_i"
CallIds == <<"call_1", "call_2", "call_3">>
ToolCallLists ==
    UNION {[1..n -> RequestedNames] : n \in 0..MaxToolCalls}
ToolCalls(names) ==
    [i \in 1..Len(names) |-> [name |-> names[i], args |-> "args", id |-> CallIds[i]]]

\* the messages argument: a string, or a list of messages
MessagesArgs ==
    {[kind |-> "str", text |-> "question", list |-> <<>>],
     [kind |-> "list", text |-> "", list |-> <<HumanMessage("question")>>]}

SystemPrompts == {None, "use the tools"}

\* lines 291-299: the message list the model is first invoked with
BuildMessageList(messages, system_prompt) ==
    IF messages.kind = "str"
    THEN (IF system_prompt # None THEN <<SystemMessage(system_prompt)>> ELSE <<>>)
         \o <<HumanMessage(messages.text)>>
    ELSE (IF system_prompt # None THEN <<SystemMessage(system_prompt)>> ELSE <<>>)
         \o messages.list

\* str(tool_result), and the text 工具执行错误: ... of a tool that raised
ToolOutput(name) == "result"
ToolError == "tool error"

\* the loop of lines 335-372 from call i on; failing holds the names of the
\* tools that raise.  A call whose name is not in tool_map adds
\* nothing.
RECURSIVE ExecuteToolCalls(_, _, _, _, _)
ExecuteToolCalls(tool_calls, i, tool_map, failing, acc) ==
    IF i > Len(tool_calls) THEN acc
    ELSE LET call == tool_calls[i]
             text == IF call.name \in failing THEN ToolError
                     ELSE ToolOutput(call.name)
         IN IF call.name \in tool_map
            THEN ExecuteToolCalls(tool_calls, i + 1, tool_map, failing,
                    [tool_results |->
                        Append(acc.tool_results,
                               [name |-> call.name, args |-> call.args,
                                id |-> call.id, result |-> text]),
                     message_list |->
                        Append(acc.message_list, ToolMessage(text, call.id))])
            ELSE ExecuteToolCalls(tool_calls, i + 1, tool_map, failing, acc)

\* which tools raise when invoked
FailingTools == {{}, {"current_time"}}

\* what one ainvoke of the model does: it raises, or it answers
ModelRaises == <<"raise">>
FirstOutcomes == {ModelRaises} \cup ToolCallLists
FinalOutcomes == {"raise", "final answer"}

\* the outcome of invoke_with_tools: raised, or the dict it returns; and
\* final_input, the message list handed to the second ainvoke (<<>> when the
\* model is not invoked a second time)
InvokeWithTools(messages, tools, system_prompt, first, failing, final) ==
    LET message_list == BuildMessageList(messages, system_prompt) IN
    IF first = ModelRaises
    THEN [raised |-> TRUE, result |-> <<>>, final_input |-> <<>>]
    ELSE LET response == AIResponse("first answer", ToolCalls(first)) IN
         IF response.tool_calls # <<>>
         THEN LET done == ExecuteToolCalls(response.tool_calls, 1, tools, failing,
                              [tool_results |-> <<>>,
                               message_list |-> Append(message_list, response)])
              IN IF final = "raise"
                 THEN [raised |-> TRUE, result |-> <<>>,
                       final_input |-> done.message_list]
                 ELSE [raised |-> FALSE,
                       result |-> [response |-> final,
                                   tool_calls |-> done.tool_results,
                                   message_list |-> done.message_list,
                                   has_tool_calls |-> TRUE],
                       final_input |-> done.message_list]
         ELSE [raised |-> FALSE,
               result |-> [response |-> response.content, tool_calls |-> <<>>,
                           has_tool_calls |-> FALSE],
               final_input |-> <<>>]

\* one call of LLMService.invoke_with_tools
invoke_with_tools(messages, tools, system_prompt, first, failing, final) ==
    /\ resp' = [op |-> "invoke_with_tools",
                message_list |-> BuildMessageList(messages, system_prompt),
                requested |-> IF first = ModelRaises THEN <<>> ELSE ToolCalls(first),
                outcome |-> InvokeWithTools(messages, tools, system_prompt, first,
                                            failing, final),
                status |-> 0]
    /\ UNCHANGED <<now, customers_db, products_db, orders_db, order_items_db,
                   threads, provider, nl_result, es_log,
                   agent, tasks, assigned_ids>>

\* GET /llm/tool_use: 200 with the four entries of the result, or 500 when
\* invoke_with_tools raises or the result lacks one of the keys read
llm_tool_use(question, first, failing, final) ==
    LET messages == [kind |-> "str", text |-> question, list |-> <<>>]
        system_prompt == "use the tools"
        outcome == InvokeWithTools(messages, AVAILABLE_TOOLS, system_prompt,
                                   first, failing, final)
        keys == {"response", "tool_calls", "has_tool_calls", "message_list"}
    IN /\ resp' = [op |-> "llm_tool_use",
                   message_list |-> BuildMessageList(messages, system_prompt),
                   requested |-> IF first = ModelRaises THEN <<>>
                                 ELSE ToolCalls(first),
                   outcome |-> outcome,
                   status |-> IF outcome.raised THEN 500
                              ELSE IF keys \subseteq DOMAIN outcome.result
                                   THEN 200 ELSE 500]
       /\ UNCHANGED <<now, customers_db, products_db, orders_db, order_items_db,
                      threads, provider, nl_result, es_log,
                   agent, tasks, assigned_ids>>

---------------------------------------------------------------------------
(* react_agent.py: ReactAgent *)

\* self.agent_executor = None
NoExecutor == <<>>

\* ReactAgent.__init__ (and BaseAgent.__init__: no tools)
NewReactAgent ==
    [tools |-> <<>>, max_iterations |-> 5, verbose |-> TRUE,
     custom_prompt |-> None, agent_executor |-> NoExecutor]

IterationCaps == {2, 5}
CustomPrompts == {"custom prompt", "other prompt"}

\* the keyword options of run
RunKwargs ==
    {<<>>, [max_iterations |-> 2], [verbose |-> FALSE], [recreate_agent |-> TRUE],
     [max_iterations |-> 2, recreate_agent |-> TRUE]}

\* kwargs.get(key, default)
KwargsGet(kwargs, key, default) ==
    IF key \in DOMAIN kwargs THEN kwargs[key] ELSE default

\* the prompt of lines 36-82: the custom one, the one pulled from the hub, or
\* the built-in template when the pull raises
ChoosePrompt(self, hub_ok) ==
    IF self.custom_prompt # None THEN self.custom_prompt
    ELSE IF hub_ok THEN "hwchase17/react" ELSE "default template"

\* ReactAgent._create_agent_executor for an agent with tools
CreateAgentExecutor(self, hub_ok) ==
    [tools |-> self.tools, verbose |-> self.verbose,
     max_iterations |-> self.max_iterations, prompt |-> ChoosePrompt(self, hub_ok)]

\* self.agent_executor is None or kwargs.get('recreate_agent', False)
NeedsCreate(self, kwargs) ==
    self.agent_executor = NoExecutor \/ KwargsGet(kwargs, "recreate_agent", FALSE)

\* BaseAgent.add_tool
add_tool(tool) ==
    /\ Len(agent.tools) < MaxTools
    /\ agent' = [agent EXCEPT !.tools = Append(@, tool)]
    /\ resp' = [op |-> "add_tool", success |-> TRUE, executed_with |-> NoExecutor,
                settings |-> <<>>]
    /\ UNCHANGED <<now, customers_db, products_db, orders_db, order_items_db,
                   threads, provider, nl_result, es_log, tasks, assigned_ids>>

\* ReactAgent.run(query, **kwargs); invoke is what agent_executor.ainvoke does
run(kwargs, hub_ok, invoke) ==
    LET configured ==
            [agent EXCEPT
               !.max_iterations = KwargsGet(kwargs, "max_iterations", @),
               !.verbose = KwargsGet(kwargs, "verbose", @)]
        settings == [max_iterations |-> configured.max_iterations,
                     verbose |-> configured.verbose,
                     custom_prompt |-> configured.custom_prompt]
    IN /\ IF NeedsCreate(configured, kwargs) /\ configured.tools = <<>>
          THEN \* ValueError("Agent需要至少一个工具才能工作"), caught at line 137
               /\ agent' = configured
               /\ resp' = [op |-> "run", success |-> FALSE,
                           executed_with |-> NoExecutor, settings |-> settings]
          ELSE LET agent_executor ==
                       IF NeedsCreate(configured, kwargs)
                       THEN CreateAgentExecutor(configured, hub_ok)
                       ELSE configured.agent_executor
               IN /\ agent' = [configured EXCEPT !.agent_executor = agent_executor]
                  /\ resp' = [op |-> "run", success |-> (invoke = "ok"),
                              executed_with |-> agent_executor,
                              settings |-> settings]
       /\ UNCHANGED <<now, customers_db, products_db, orders_db, order_items_db,
                      threads, provider, nl_result, es_log, tasks,
                      assigned_ids>>

set_max_iterations(max_iterations) ==
    /\ agent' = [agent EXCEPT !.max_iterations = max_iterations,
                              !.agent_executor = NoExecutor]
    /\ resp' = [op |-> "set_max_iterations", success |-> TRUE,
                executed_with |-> NoExecutor, settings |-> <<>>]
    /\ UNCHANGED <<now, customers_db, products_db, orders_db, order_items_db,
                   threads, provider, nl_result, es_log, tasks, assigned_ids>>

set_verbose(verbose) ==
    /\ agent' = [agent EXCEPT !.verbose = verbose, !.agent_executor = NoExecutor]
    /\ resp' = [op |-> "set_verbose", success |-> TRUE,
                executed_with |-> NoExecutor, settings |-> <<>>]
    /\ UNCHANGED <<now, customers_db, products_db, orders_db, order_items_db,
                   threads, provider, nl_result, es_log, tasks, assigned_ids>>

set_custom_prompt(prompt) ==
    /\ agent' = [agent EXCEPT !.custom_prompt = prompt,
                              !.agent_executor = NoExecutor]
    /\ resp' = [op |-> "set_custom_prompt", success |-> TRUE,
                executed_with |-> NoExecutor, settings |-> <<>>]
    /\ UNCHANGED <<now, customers_db, products_db, orders_db, order_items_db,
                   threads, provider, nl_result, es_log, tasks, assigned_ids>>

---------------------------------------------------------------------------
(* langchain_service.py: aggregate_customer_data *)

(* A hit is its _score and the fields of its _source; conversation_time is   *)
(* an integer.  A summary that is absent or empty is "".                      *)

HitKinds ==
    {[score |-> 900, customer_id |-> "c1", customer_name |-> "n1",
      conversation_id |-> "v1", conversation_time |-> 2, summary |-> "s1",
      mentioned_products |-> <<"p1", "p2">>, mentioned_industries |-> <<"i1">>,
      mentioned_topics |-> <<"t1", "t1">>, mentioned_complaints |-> <<>>],
     [score |-> 700, customer_id |-> "c1", customer_name |-> "n1b",
      conversation_id |-> "v2", conversation_time |-> 1, summary |-> "",
      mentioned_products |-> <<"p1">>, mentioned_industries |-> <<"i1">>,
      mentioned_topics |-> <<>>, mentioned_complaints |-> <<"x1">>],
     [score |-> 900, customer_id |-> "c2", customer_name |-> "n2",
      conversation_id |-> "v3", conversation_time |-> 3, summary |-> "s3",
      mentioned_products |-> <<"p2", "p2">>, mentioned_industries |-> <<>>,
      mentioned_topics |-> <<"t2">>, mentioned_complaints |-> <<>>],
     [score |-> 700, customer_id |-> "c3", customer_name |-> "n3",
      conversation_id |-> "v4", conversation_time |-> 1, summary |-> "s4",
      mentioned_products |-> <<>>, mentioned_industries |-> <<>>,
      mentioned_topics |-> <<>>, mentioned_complaints |-> <<>>]}

\* search_results["hits"]["hits"] of the model: short lists of any hits, and
\* longer ones of the two best-scored hits
AggregateInputs ==
    SeqsUpTo(HitKinds, MaxMixedHits)
    \cup SeqsUpTo({h \in HitKinds : h.score = 900}, MaxHits)

\* the keys of customer_data, in the order the loop of lines 849-886 inserts
\* them
RECURSIVE CustomerKeys(_)
CustomerKeys(hits) ==
    IF hits = <<>> THEN <<>>
    ELSE LET before == CustomerKeys(SubSeq(hits, 1, Len(hits) - 1))
             customer_id == hits[Len(hits)].customer_id
         IN IF \E i \in 1..Len(before) : before[i] = customer_id
            THEN before ELSE Append(before, customer_id)

\* the hits of one customer, in input order
RECURSIVE HitsOf(_, _)
HitsOf(hits, customer_id) ==
    IF hits = <<>> THEN <<>>
    ELSE (IF hits[1].customer_id = customer_id THEN <<hits[1]>> ELSE <<>>)
         \o HitsOf(Tail(hits), customer_id)

\* the list a field's values are appended to
Collected(hs, field) == [i \in 1..Len(hs) |-> hs[i][field]]

\* conversation_summaries: the summaries that are truthy
RECURSIVE Summaries(_)
Summaries(hs) ==
    IF hs = <<>> THEN <<>>
    ELSE (IF hs[1].summary # "" THEN <<hs[1].summary>> ELSE <<>>)
         \o Summaries(Tail(hs))

\* bug variant: all the summaries are returned
WholeList(seq) == seq

\* seq[:5]
FirstFive(seq) == SubSeq(seq, 1, MinOf(5, Len(seq)))

\* the set the values of a mentioned_* field are added to
MentionedSet(hs, field) ==
    UNION {{hs[i][field][j] : j \in 1..Len(hs[i][field])} : i \in 1..Len(hs)}

\* list(a_set): each element once, in an order the set decides
ListOfSet(S) ==
    CHOOSE seq \in [1..Cardinality(S) -> S] :
        {seq[i] : i \in 1..Cardinality(S)} = S

\* the entry appended to result for one customer (lines 893-908); its first
\* hit gives the name
CustomerEntry(hs) ==
    [customer_id |-> hs[1].customer_id,
     customer_name |-> hs[1].customer_name,
     conversation_count |-> Len(Collected(hs, "conversation_id")),
     latest_conversation_time |->
         SeqMax(Collected(hs, "conversation_time")),
     earliest_conversation_time |->
         -SeqMax([i \in 1..Len(hs) |-> -hs[i].conversation_time]),
     conversation_summaries |-> FirstFive(Summaries(hs)),
     mentioned_products |-> ListOfSet(MentionedSet(hs, "mentioned_products")),
     mentioned_industries |->
         ListOfSet(MentionedSet(hs, "mentioned_industries")),
     mentioned_topics |-> ListOfSet(MentionedSet(hs, "mentioned_topics")),
     mentioned_complaints |->
         ListOfSet(MentionedSet(hs, "mentioned_complaints")),
     similarity_score |-> CalculateWeightedSimilarity(Collected(hs, "score")),
     matched_conversations |-> Collected(hs, "conversation_id")]

\* a < b for two quotients weighted_sum / total_weight (total_weight > 0)
SimilarityLess(a, b) ==
    a.weighted_sum * b.total_weight < b.weighted_sum * a.total_weight

\* the tuples (similarity_score, conversation_count) compared: key(a) < key(b)
SortKeyLess(a, b) ==
    \/ SimilarityLess(a.similarity_score, b.similarity_score)
    \/ /\ ~SimilarityLess(b.similarity_score, a.similarity_score)
       /\ a.conversation_count < b.conversation_count

\* one insertion of result.sort(key=..., reverse=True): stable
RECURSIVE InsertEntry(_, _)
InsertEntry(sorted, entry) ==
    IF sorted = <<>> THEN <<entry>>
    ELSE IF ~SortKeyLess(sorted[1], entry)
         THEN <<sorted[1]>> \o InsertEntry(Tail(sorted), entry)
         ELSE <<entry>> \o sorted

RECURSIVE SortEntries(_)
SortEntries(result) ==
    IF result = <<>> THEN <<>>
    ELSE InsertEntry(SortEntries(SubSeq(result, 1, Len(result) - 1)),
                     result[Len(result)])

\* aggregate_customer_data(search_results)
AggregateCustomerData(hits) ==
    SortEntries([i \in 1..Len(CustomerKeys(hits)) |->
                    CustomerEntry(HitsOf(hits, CustomerKeys(hits)[i]))])

\* one call of aggregate_customer_data
aggregate_customer_data(hits) ==
    /\ resp' = [op |-> "aggregate_customer_data", hits |-> hits,
                result |-> AggregateCustomerData(hits)]
    /\ UNCHANGED <<now, customers_db, products_db, orders_db, order_items_db,
                   threads, provider, nl_result, es_log,
                   agent, tasks, assigned_ids>>

\* the ids of the seed rows of the three stores
SeedIds ==
    [customers |-> {SeedCustomers[i].id : i \in 1..Len(SeedCustomers)},
     products |-> {SeedProducts[i].id : i \in 1..Len(SeedProducts)},
     orders |-> {SeedOrders[i].id : i \in 1..Len(SeedOrders)}]

---------------------------------------------------------------------------
(* llmtest.py: llm_multi_tool_demo *)

(* A request is a task of the event loop; the handler suspends at each       *)
(* await of the model and resumes with what the model answers.  The task's   *)
(* record holds the handler's locals, and responses, the list of the model's *)
(* answers so far.                                                           *)

\* max_iterations = 5
DemoMaxIterations == 5

\* the tools bound to the model
DemoTools ==
    {"get_current_time", "advanced_calculator", "weather_simulator",
     "text_processor", "random_generator", "unit_converter"}

\* the model raising instead of answering
ModelError == [type |-> "raise", content |-> "", tool_calls |-> <<>>]

\* what one call of the model gives: a response with or without tool calls
\* (one call of a bound tool; or a call that may fail and a call of a name that
\* no tool has), or an exception
DemoOutcomes ==
    {AIResponse(content, ToolCalls(names)) :
        content \in {"", "thinking"},
        names \in {<<"get_current_time">>,
                   <<"advanced_calculator", "no_such_tool">>}}
    \cup {AIResponse("final answer", <<>>), AIResponse("", <<>>), ModelError}

\* the tools whose invoke raises
DemoFailing == {{}, {"advanced_calculator"}}

\* the for loop of lines 526-573 from call i on: the tool messages appended
\* and the details recorded; a call whose name is not in tool_map adds nothing
RECURSIVE DemoExecute(_, _, _, _, _)
DemoExecute(tool_calls, i, failing, iteration, acc) ==
    IF i > Len(tool_calls) THEN acc
    ELSE LET call == tool_calls[i] IN
         IF call.name \notin DemoTools
         THEN DemoExecute(tool_calls, i + 1, failing, iteration, acc)
         ELSE LET failed == call.name \in failing IN
              DemoExecute(tool_calls, i + 1, failing, iteration,
                  [messages |->
                      Append(acc.messages,
                          ToolMessage(IF failed THEN ToolError
                                      ELSE ToolOutput(call.name), call.id)),
                   all_tool_calls |->
                      Append(acc.all_tool_calls,
                          [name |-> call.name, id |-> call.id,
                           status |-> IF failed THEN "error" ELSE "success",
                           round |-> iteration])])

\* bug variant: the loop runs once more
WhileConditionInclusive(iteration) == iteration <= DemoMaxIterations

\* while iteration < max_iterations
WhileCondition(iteration) == iteration < DemoMaxIterations

\* the handler from the head of the while loop (line 516) on, response being
\* the model's latest answer, until it suspends at the await of line 576 or
\* leaves the loop
DemoLoop(local, response, failing) ==
    IF ~WhileCondition(local.iteration)
    THEN [returns |-> TRUE, local |-> local]
    ELSE IF response.tool_calls # <<>>
    THEN LET done == DemoExecute(response.tool_calls, 1, failing,
                         local.iteration + 1,
                         [messages |-> Append(local.messages, response),
                          all_tool_calls |-> local.all_tool_calls])
         IN [returns |-> FALSE,
             local |-> [local EXCEPT !.iteration = @ + 1,
                                     !.messages = done.messages,
                                     !.all_tool_calls = done.all_tool_calls]]
    ELSE [returns |-> TRUE, local |-> [local EXCEPT !.iteration = @ + 1]]

\* the handler resumed with the model's answer: after the await of line 504
\* it enters the loop; after the await of line 576 it breaks when the answer
\* has no tool calls and goes back to the head of the loop otherwise
DemoResume(local, response, failing) ==
    IF local.responses # <<>> /\ response.tool_calls = <<>>
    THEN [returns |-> TRUE, local |-> local]
    ELSE DemoLoop(local, response, failing)

\* the dict of lines 587-604
DemoBody(local, response) ==
    IF local.all_tool_calls # <<>>
    THEN [response |-> response.content,
          tool_calls_count |-> Len(local.all_tool_calls),
          rounds |-> local.iteration]
    ELSE [response |-> response.content, tool_calls_count |-> 0]

\* GET /llm/multi_tool_demo arrives: the handler runs up to the await of
\* line 504
llm_multi_tool_demo(t, question) ==
    /\ tasks[t] = Idle
    /\ tasks' = [tasks EXCEPT ![t] =
                    [handler |-> "llm_multi_tool_demo", iteration |-> 0,
                     messages |-> <<SystemMessage("assistant with tools"),
                                    HumanMessage(question)>>,
                     all_tool_calls |-> <<>>, responses |-> <<>>]]
    /\ resp' = [op |-> "llm_multi_tool_demo", status |-> 0]
    /\ UNCHANGED <<now, customers_db, products_db, orders_db, order_items_db,
                   threads, provider, nl_result, es_log, agent, assigned_ids>>

\* the model call the handler awaits completes, and the handler runs on to
\* its next await or to its end
multi_tool_demo_resume(t, outcome, failing) ==
    /\ tasks[t].handler = "llm_multi_tool_demo"
    /\ IF outcome = ModelError
       THEN \* the exception leaves the handler: 500
            /\ tasks' = [tasks EXCEPT ![t] = Idle]
            /\ resp' = [op |-> "llm_multi_tool_demo", status |-> 500,
                        iteration |-> tasks[t].iteration,
                        responses |-> tasks[t].responses]
       ELSE LET local == tasks[t]
                next == DemoResume(local, outcome, failing)
                responses == Append(local.responses, outcome)
            IN IF next.returns
               THEN /\ tasks' = [tasks EXCEPT ![t] = Idle]
                    /\ resp' = [op |-> "llm_multi_tool_demo", status |-> 200,
                                iteration |-> next.local.iteration,
                                responses |-> responses,
                                messages |-> next.local.messages,
                                body |-> DemoBody(next.local, outcome)]
               ELSE /\ tasks' = [tasks EXCEPT ![t] =
                                    [next.local EXCEPT !.responses = responses]]
                    /\ UNCHANGED resp
    /\ UNCHANGED <<now, customers_db, products_db, orders_db, order_items_db,
                   threads, provider, nl_result, es_log, agent, assigned_ids>>

---------------------------------------------------------------------------
(* agenttest.py: smart_researcher_agent *)

\* for step in range(6)
ResearchRange == 6

\* the tools bound to the model
ResearchTools ==
    {"analyze_topic", "create_research_plan", "simulate_research",
     "generate_report"}

\* what one call of the model gives
ResearchOutcomes ==
    {AIResponse("", ToolCalls(<<"analyze_topic">>)),
     AIResponse("", ToolCalls(<<"simulate_research", "no_such_tool">>)),
     AIResponse("report", <<>>), ModelError}

\* the tools whose invoke raises
ResearchFailing == {{}, {"simulate_research"}}

\* final_answer of the else clause of the for loop (line 412)
ResearchExhausted == "research finished, see the steps"

\* the for loop of lines 374-398 from call i on: a tool that returns adds a
\* research step and a ToolMessage, a tool that raises adds a research step
\* only, a name that is not in tool_map adds nothing
RECURSIVE ResearchExecute(_, _, _, _, _)
ResearchExecute(tool_calls, i, failing, step, acc) ==
    IF i > Len(tool_calls) THEN acc
    ELSE LET call == tool_calls[i] IN
         IF call.name \notin ResearchTools
         THEN ResearchExecute(tool_calls, i + 1, failing, step, acc)
         ELSE IF call.name \in failing
         THEN ResearchExecute(tool_calls, i + 1, failing, step,
                  [acc EXCEPT !.research_steps =
                      Append(@, [step |-> step + 1, tool |-> call.name,
                                 result |-> ToolError])])
         ELSE ResearchExecute(tool_calls, i + 1, failing, step,
                  [messages |->
                      Append(acc.messages,
                             ToolMessage(ToolOutput(call.name), call.id)),
                   research_steps |->
                      Append(acc.research_steps,
                             [step |-> step + 1, tool |-> call.name,
                              result |-> ToolOutput(call.name)])])

\* bug variant: the loop has one step more
ForHasNextInclusive(step) == step + 1 <= ResearchRange

\* whether range(6) has a value after step
ForHasNext(step) == step + 1 < ResearchRange

\* the handler resumed with the model's answer after the await of line 366
\* (awaiting = "response") or of line 401 (awaiting = "continue_response"),
\* until it suspends again or reaches the return
ResearchResume(local, outcome, failing) ==
    IF local.awaiting = "response"
    THEN IF outcome.tool_calls # <<>>
         THEN LET done == ResearchExecute(outcome.tool_calls, 1, failing,
                              local.step,
                              [messages |-> Append(local.messages, outcome),
                               research_steps |-> local.research_steps])
              IN [returns |-> FALSE, final_answer |-> "",
                  local |-> [local EXCEPT !.awaiting = "continue_response",
                                          !.messages = done.messages,
                                          !.research_steps = done.research_steps]]
         ELSE [returns |-> TRUE, final_answer |-> outcome.content,
               local |-> local]
    ELSE LET appended == [local EXCEPT !.messages = Append(@, outcome)] IN
         IF outcome.tool_calls = <<>>
         THEN [returns |-> TRUE, final_answer |-> outcome.content,
               local |-> appended]
         ELSE IF ForHasNext(local.step)
         THEN [returns |-> FALSE, final_answer |-> "",
               local |-> [appended EXCEPT !.awaiting = "response",
                                           !.step = @ + 1]]
         ELSE [returns |-> TRUE, final_answer |-> ResearchExhausted,
               local |-> appended]

\* GET /agent/smart_researcher arrives: the handler runs up to the await of
\* line 366 of step 0
smart_researcher_agent(t, topic) ==
    /\ tasks[t] = Idle
    /\ tasks' = [tasks EXCEPT ![t] =
                    [handler |-> "smart_researcher_agent", step |-> 0,
                     awaiting |-> "response",
                     messages |-> <<SystemMessage("researcher"),
                                    HumanMessage(topic)>>,
                     research_steps |-> <<>>, responses |-> <<>>]]
    /\ resp' = [op |-> "smart_researcher_agent", status |-> 0]
    /\ UNCHANGED <<now, customers_db, products_db, orders_db, order_items_db,
                   threads, provider, nl_result, es_log, agent, assigned_ids>>

\* the model call the handler awaits completes, and the handler runs on to
\* its next await or to its end
smart_researcher_resume(t, outcome, failing) ==
    /\ tasks[t].handler = "smart_researcher_agent"
    /\ IF outcome = ModelError
       THEN \* the exception leaves the handler: 500
            /\ tasks' = [tasks EXCEPT ![t] = Idle]
            /\ resp' = [op |-> "smart_researcher_agent", status |-> 500,
                        rounds |-> tasks[t].step + 1,
                        responses |-> tasks[t].responses]
       ELSE LET local == tasks[t]
                next == ResearchResume(local, outcome, failing)
                responses == Append(local.responses, outcome)
            IN IF next.returns
               THEN /\ tasks' = [tasks EXCEPT ![t] = Idle]
                    /\ resp' = [op |-> "smart_researcher_agent",
                                status |-> 200,
                                rounds |-> next.local.step + 1,
                                responses |-> responses,
                                body |->
                                  [final_report |-> next.final_answer,
                                   total_steps |->
                                      Len(next.local.research_steps)]]
               ELSE /\ tasks' = [tasks EXCEPT ![t] =
                                    [next.local EXCEPT !.responses = responses]]
                    /\ UNCHANGED resp
    /\ UNCHANGED <<now, customers_db, products_db, orders_db, order_items_db,
                   threads, provider, nl_result, es_log, agent, assigned_ids>>

---------------------------------------------------------------------------
(* upload_conversations.py: process_conversation_file *)

(* A line of the file is what surrounds it (blanks and the line end, which   *)
(* strip() removes), its prefix (the three characters of the advisor or the  *)
(* customer prefix, or none) and the text after it.  A content is the list   *)
(* of its pieces, "\n" among them.                                           *)

\* the lines a transcript is made of: an advisor line, a customer line with
\* blanks around it, an advisor line with no text, a line without prefix, the
\* same with blanks before it, and a line of blanks
LineKinds ==
    {[pad |-> FALSE, prefix |-> "advisor", text |-> "a"],
     [pad |-> TRUE, prefix |-> "customer", text |-> "c"],
     [pad |-> FALSE, prefix |-> "advisor", text |-> ""],
     [pad |-> FALSE, prefix |-> "none", text |-> "x"],
     [pad |-> TRUE, prefix |-> "none", text |-> "y"],
     [pad |-> TRUE, prefix |-> "none", text |-> ""]}

\* f.readlines() of the files of the model
FileContents == SeqsUpTo(LineKinds, MaxLines)

\* line.strip()
Strip(line) == [line EXCEPT !.pad = FALSE]

\* not line, for a stripped line
IsEmptyLine(line) == line.prefix = "none" /\ line.text = ""

\* the message dict of lines 73-80 (send_time and message_type are the same
\* for every message)
NewMessage(line, advisor_id, customer_id) ==
    [sender_type |-> line.prefix,
     sender_id |-> IF line.prefix = "advisor" THEN advisor_id ELSE customer_id,
     content |-> <<line.text>>]

\* bug variant: a line without prefix is left out
ContinuationDropped(messages, line) == messages

\* messages[-1]["content"] += "\n" + line, when there is a message
AppendContinuation(messages, line) ==
    IF messages # <<>>
    THEN [messages EXCEPT ![Len(messages)].content = @ \o <<"\n", line.text>>]
    ELSE messages

\* the loop of lines 51-83 over the lines from i on
RECURSIVE ParseLines(_, _, _, _, _)
ParseLines(lines, i, advisor_id, customer_id, messages) ==
    IF i > Len(lines) THEN messages
    ELSE LET line == Strip(lines[i]) IN
         IF IsEmptyLine(line)
         THEN ParseLines(lines, i + 1, advisor_id, customer_id, messages)
         ELSE IF line.prefix \in {"advisor", "customer"}
         THEN ParseLines(lines, i + 1, advisor_id, customer_id,
                  Append(messages, NewMessage(line, advisor_id, customer_id)))
         ELSE ParseLines(lines, i + 1, advisor_id, customer_id,
                  AppendContinuation(messages, line))

\* the script's task: the file it is about to process.  name_ok tells whether
\* the file name has the form date-FAn-CLn.txt
IngestTasks ==
    [handler : {"process_conversation_file"}, name_ok : BOOLEAN,
     lines : FileContents]

\* process_conversation_file(file_path): None for a file name of another
\* form, else the document, of which the messages are kept here
process_conversation_file(t) ==
    /\ tasks[t].handler = "process_conversation_file"
    /\ resp' = IF ~tasks[t].name_ok
               THEN [op |-> "process_conversation_file", returned |-> "None",
                     lines |-> tasks[t].lines, messages |-> <<>>]
               ELSE [op |-> "process_conversation_file", returned |-> "doc",
                     lines |-> tasks[t].lines,
                     messages |-> ParseLines(tasks[t].lines, 1, "FA1", "CL1",
                                             <<>>)]
    /\ tasks' = [tasks EXCEPT ![t] = Idle]
    /\ UNCHANGED <<now, customers_db, products_db, orders_db, order_items_db,
                   threads, provider, nl_result, es_log, agent, assigned_ids>>

---------------------------------------------------------------------------
(* Concurrent create requests: customers.py, products.py, orders.py *)

(* The server is one process with one event loop.  A request that arrived is *)
(* a task whose handler call is scheduled; the loop runs a handler until it  *)
(* awaits or returns.  The three create handlers are coroutines whose bodies *)
(* hold no await.                                                            *)

CreateHandlers == {"create_customer", "create_product", "create_order"}

\* the bodies that can be posted to a create handler
CreateBodies(handler) ==
    CASE handler = "create_customer" -> CustomerCreates
      [] handler = "create_product" -> ProductCreates
      [] handler = "create_order" -> OrderCreates

\* the store a create handler reads the ids of
StoreOf(handler) ==
    CASE handler = "create_customer" -> customers_db
      [] handler = "create_product" -> products_db
      [] handler = "create_order" -> orders_db

\* bug variant: the handler awaits between reading the ids and appending
AwaitsBeforeAppendAlways(handler) == TRUE

\* whether the handler awaits between reading the ids and appending the new
\* record: no create handler holds an await
AwaitsBeforeAppend(handler) == FALSE

\* the other create requests of the same store that are in flight
InFlightWith(t) ==
    {u \in TaskIds \ {t} :
        /\ tasks[u].handler = tasks[t].handler
        /\ tasks[u].state \in {"scheduled", "suspended"}}

\* the task of a create request that was answered
Answered201(t, id) ==
    [handler |-> tasks[t].handler, state |-> "answered", status |-> 201,
     id |-> id, body |-> tasks[t].body, concurrent |-> InFlightWith(t)]

\* a POST arrives at a create handler: its call is scheduled on the loop
receive_create(t, handler, body) ==
    /\ tasks[t] = Idle
    /\ tasks' = [tasks EXCEPT ![t] =
                    [handler |-> handler, state |-> "scheduled", status |-> 0,
                     id |-> 0, body |-> body, concurrent |-> {}]]
    /\ UNCHANGED <<now, resp, customers_db, products_db, orders_db,
                   order_items_db, threads, provider, nl_result, es_log,
                   agent, assigned_ids>>

\* the handler of a suspended create resumes: it appends the record with the
\* id it read before it was suspended
ResumeCreate(t) ==
    LET body == tasks[t].body
        id == tasks[t].id
        stamp == [id |-> id, created_at |-> Time(now), updated_at |-> NoTime]
    IN /\ now < MaxClock
       /\ now' = now + 1
       /\ resp' = [op |-> tasks[t].handler, id |-> id, status |-> 201]
       /\ tasks' = [tasks EXCEPT ![t] = Answered201(t, id)]
       /\ IF tasks[t].handler = "create_customer"
          THEN /\ customers_db' =
                     Append(customers_db,
                         DictMerge(body, DictMerge(stamp,
                             [total_orders |-> 0, total_spent |-> 0])))
               /\ assigned_ids' = [assigned_ids EXCEPT !.customers = @ \cup {id}]
               /\ UNCHANGED <<products_db, orders_db, order_items_db>>
          ELSE IF tasks[t].handler = "create_product"
          THEN /\ products_db' = Append(products_db, DictMerge(body, stamp))
               /\ assigned_ids' = [assigned_ids EXCEPT !.products = @ \cup {id}]
               /\ UNCHANGED <<customers_db, orders_db, order_items_db>>
          ELSE LET rows == NewOrderItems(body.items, id, order_items_db) IN
               /\ orders_db' =
                     Append(orders_db,
                         DictMerge([k \in (DOMAIN body) \ {"items"} |-> body[k]],
                             DictMerge(stamp,
                                 [total_amount |-> TotalAmount(rows)])))
               /\ order_items_db' = order_items_db \o rows
               /\ assigned_ids' = [assigned_ids EXCEPT !.orders = @ \cup {id}]
               /\ UNCHANGED <<customers_db, products_db>>
       /\ UNCHANGED <<threads, provider, nl_result, es_log, agent>>

\* the event loop runs the handler of a create request.  A handler without an
\* await runs from its first line to its return in this one step.
run_create(t) ==
    /\ tasks[t].handler \in CreateHandlers
    /\ tasks[t].state \in {"scheduled", "suspended"}
    /\ IF tasks[t].state = "suspended"
       THEN ResumeCreate(t)
       ELSE IF AwaitsBeforeAppend(tasks[t].handler)
       THEN /\ tasks' = [tasks EXCEPT ![t].state = "suspended",
                                      ![t].id = NextId(StoreOf(tasks[t].handler))]
            /\ UNCHANGED <<now, resp, customers_db, products_db, orders_db,
                           order_items_db, threads, provider, nl_result,
                           es_log, agent, assigned_ids>>
       ELSE /\ IF tasks[t].handler = "create_customer"
               THEN create_customer(tasks[t].body)
               ELSE IF tasks[t].handler = "create_product"
               THEN create_product(tasks[t].body)
               ELSE create_order(tasks[t].body)
            /\ tasks' = [tasks EXCEPT ![t] =
                            IF resp'.status = 201
                            THEN Answered201(t, resp'.id)
                            ELSE [Answered201(t, 0) EXCEPT
                                     !.status = resp'.status]]

\* the response of an answered create was sent: its task ends
finish_create(t) ==
    /\ tasks[t].handler \in CreateHandlers
    /\ tasks[t].state = "answered"
    /\ tasks' = [tasks EXCEPT ![t] = Idle]
    /\ UNCHANGED <<now, resp, customers_db, products_db, orders_db,
                   order_items_db, threads, provider, nl_result, es_log,
                   agent, assigned_ids>>

---------------------------------------------------------------------------
(* Claims about the customers store *)

\* the ids present in a store, as a set
IdSet(db) == {db[i]["id"] : i \in 1..Len(db)}

\* C1: every newly created customer record gets the id one plus the maximum id
\* present in the store at the moment of creation, or 1 if the store is empty
\* then; the record is appended and the response carries that id.
C1_NewIdIsMaxPlusOne ==
    [][(resp'.op = "create_customer" /\ resp'.status = 201)
        => /\ Len(customers_db') = Len(customers_db) + 1
           /\ SubSeq(customers_db', 1, Len(customers_db)) = customers_db
           /\ LET new == customers_db'[Len(customers_db')]["id"] IN
              /\ resp'.id = new
              /\ customers_db = <<>> => new = 1
              /\ customers_db # <<>> =>
                    /\ new - 1 \in IdSet(customers_db)
                    /\ \A x \in IdSet(customers_db) : x <= new - 1]_vars

\* C1 witness: the store was emptied by deletions and a create then got id 1
C1_Witness ==
    /\ resp.op = "create_customer" /\ resp.status = 201 /\ resp.id = 1
    /\ Len(customers_db) = 1

\* C2: a create whose email equals the email of a customer in the store, and an
\* update of an existing customer X to an email that a different customer Y
\* has, are answered 400 and leave the customers store as it was.
C2_DuplicateEmailRejected ==
    [][/\ (/\ resp'.op = "create_customer"
            /\ \E i \in 1..Len(customers_db) :
                  customers_db[i]["email"] = resp'.email)
          => (resp'.status = 400 /\ customers_db' = customers_db)
       /\ (/\ resp'.op = "update_customer"
            /\ resp'.email # None
            /\ resp'.id \in IdSet(customers_db)
            /\ \E i \in 1..Len(customers_db) :
                  /\ customers_db[i]["id"] # resp'.id
                  /\ customers_db[i]["email"] = resp'.email)
          => (resp'.status = 400 /\ customers_db' = customers_db)]_vars

\* C2 witness: an update was refused because another customer has the email,
\* in a store that an earlier create had extended
C2_Witness ==
    /\ resp.op = "update_customer" /\ resp.status = 400
    /\ Len(customers_db) = 4
    /\ \E i \in 1..Len(customers_db) :
          customers_db[i]["id"] # resp.id /\ customers_db[i]["email"] = resp.email

\* C3: in every reachable state of the customers store no two customer records
\* have the same email.
C3_EmailUnique ==
    \A i, j \in 1..Len(customers_db) :
        i # j => customers_db[i]["email"] # customers_db[j]["email"]

---------------------------------------------------------------------------
(* Claims about the orders and products stores *)

\* the unit price the price table fixes for products 1, 2 and 3
TablePrice(product_id) ==
    CASE product_id = 1 -> 6999 [] product_id = 2 -> 4999 [] product_id = 3 -> 999

\* sum over the requested items of resolved unit price x quantity
RECURSIVE ResolvedSum(_)
ResolvedSum(items) ==
    IF items = <<>> THEN 0
    ELSE (IF items[1].product_id \in {1, 2, 3}
          THEN TablePrice(items[1].product_id)
          ELSE items[1].unit_price) * items[1].quantity
         + ResolvedSum(Tail(items))

\* sum of the subtotals of the order-item rows of one order
RECURSIVE SubtotalSum(_, _)
SubtotalSum(items_db, order_id) ==
    IF items_db = <<>> THEN 0
    ELSE (IF items_db[1]["order_id"] = order_id THEN items_db[1]["subtotal"] ELSE 0)
         + SubtotalSum(Tail(items_db), order_id)

\* C4: an order created with N line items is stored and returned with
\* total_amount equal to the sum of resolved unit price x quantity over its
\* items (6999, 4999, 999 for products 1, 2, 3, the caller's price otherwise),
\* and in every reachable state each stored order's total_amount is the sum of
\* the subtotals of the order-item rows that carry its id.
C4_TotalAmountIsSum ==
    /\ (resp.op = "create_order" /\ resp.status = 201) =>
          /\ resp.body["total_amount"] = ResolvedSum(resp.request)
          /\ LET stored == orders_db[Len(orders_db)] IN
             /\ stored["id"] = resp.id
             /\ stored["total_amount"] = ResolvedSum(resp.request)
          /\ Len(resp.body["items"]) = Len(resp.request)
    /\ \A i \in 1..Len(orders_db) :
          orders_db[i]["total_amount"]
              = SubtotalSum(order_items_db, orders_db[i]["id"])

\* C4 witness: an order was created from a table product and a product outside
\* the table, after a listing had written items into a stored order
C4_Witness ==
    /\ resp.op = "create_order" /\ resp.status = 201
    /\ \E k \in 1..Len(resp.request) : resp.request[k].product_id \in {1, 2, 3}
    /\ \E k \in 1..Len(resp.request) : resp.request[k].product_id \notin {1, 2, 3}
    /\ \E i \in 1..Len(orders_db) : "items" \in DOMAIN orders_db[i]

\* C5: after POST /products/ with input P succeeded with id i, an immediately
\* following GET /products/{i} returns a record with the name, description,
\* price, stock and category of P, with id i and with a created_at value.
C5_CreateThenGetRoundTrip ==
    [][(/\ resp.op = "create_product" /\ resp.status = 201
        /\ resp'.op = "get_product" /\ resp'.id = resp.id)
       => /\ resp'.status = 200
          /\ \A f \in {"name", "description", "price", "stock", "category"} :
                resp'.body[f] = resp.request[f]
          /\ resp'.body["id"] = resp.id
          /\ "created_at" \in DOMAIN resp'.body
          /\ resp'.body["created_at"] # NoTime]_vars

\* C5 witness: a GET returned a product that a create of this behaviour added
C5_Witness ==
    /\ resp.op = "get_product" /\ resp.status = 200
    /\ resp.body["created_at"] # Time(0)
    /\ resp.body["name"] \in {"tablet", "laptop"}

\* C6: DELETE /orders/{id} for an id that no order in the store has returns 404
\* and leaves the orders store and the order-items store unmodified.
C6_DeleteMissingOrder ==
    [][(resp'.op = "delete_order" /\ resp'.id \notin IdSet(orders_db))
       => /\ resp'.status = 404
          /\ orders_db' = orders_db
          /\ order_items_db' = order_items_db]_vars

\* C6 witness: a delete of an absent id was answered 404 while orders remain
C6_Witness ==
    /\ resp.op = "delete_order" /\ resp.status = 404
    /\ resp.id \notin IdSet(orders_db)
    /\ orders_db # <<>> /\ order_items_db # <<>>

\* the rows (or orders) of a store whose field f is not id, in store order
Others(db, f, id) == SelectSeq(db, LAMBDA r : r[f] # id)

\* C17: after a successful DELETE /orders/{id} the orders store has no order
\* with that id and the order-items store has no row of that order, while
\* all other orders and all rows of other orders are unchanged; and in every
\* reachable state each order-item row belongs to an order of the orders store.
C17_DeleteOrderCascades ==
    /\ [](\A i \in 1..Len(order_items_db) :
            order_items_db[i]["order_id"] \in IdSet(orders_db))
    /\ [][(resp'.op = "delete_order" /\ resp'.status = 204)
          => LET id == resp'.id
             IN /\ id \in IdSet(orders_db)
                /\ id \notin IdSet(orders_db')
                /\ \A i \in 1..Len(order_items_db') :
                      order_items_db'[i]["order_id"] # id
                /\ orders_db' = Others(orders_db, "id", id)
                /\ order_items_db' = Others(order_items_db, "order_id", id)]_vars

\* C17 witness: order 1, which had rows, was deleted while another order and
\* its rows remain
C17_Witness ==
    /\ resp.op = "delete_order" /\ resp.status = 204 /\ resp.id = 1
    /\ orders_db # <<>>
    /\ order_items_db # <<>>

\* C28: the read operations on orders are read-only: a GET /orders/ step (any
\* skip, limit, status and user_id) and a GET /orders/{id} step leave the
\* orders store and the order-items store exactly as they were, the keys and
\* the values of every stored order included.  get_order works on a copy of
\* the stored dict; get_orders writes the key "items" into the stored dicts
\* it returns.
C28_OrderReadsAreReadOnly ==
    [][resp'.op \in {"get_orders", "get_order"}
        => /\ orders_db' = orders_db
           /\ order_items_db' = order_items_db]_vars

---------------------------------------------------------------------------
(* Claims about the update handlers *)

\* the frame of one successful update of the record id of a store by payload
UpdateFrame(db, dbAfter, id, payload) ==
    \E i \in 1..Len(db) :
        /\ db[i]["id"] = id
        /\ \A j \in 1..(i - 1) : db[j]["id"] # id
        /\ Len(dbAfter) = Len(db)
        /\ \A j \in (1..Len(db)) \ {i} : dbAfter[j] = db[j]
        /\ DOMAIN dbAfter[i] = DOMAIN db[i]
        /\ dbAfter[i]["id"] = id
        /\ dbAfter[i]["created_at"] = db[i]["created_at"]
        /\ \A f \in (DOMAIN db[i]) \ ((DOMAIN payload) \cup {"updated_at"}) :
              dbAfter[i][f] = db[i][f]

\* C18: a successful update of a product, customer or order changes, in the
\* stored record with that id, only the fields present in the payload and
\* updated_at; the id, created_at, the absent fields, the record's position
\* and all other records (and the other stores) are unchanged.
C18_UpdateFrame ==
    [][/\ (resp'.op = "update_customer" /\ resp'.status = 200)
          => /\ UpdateFrame(customers_db, customers_db', resp'.id, resp'.request)
             /\ UNCHANGED <<products_db, orders_db, order_items_db>>
       /\ (resp'.op = "update_product" /\ resp'.status = 200)
          => /\ UpdateFrame(products_db, products_db', resp'.id, resp'.request)
             /\ UNCHANGED <<customers_db, orders_db, order_items_db>>
       /\ (resp'.op = "update_order" /\ resp'.status = 200)
          => /\ UpdateFrame(orders_db, orders_db', resp'.id, resp'.request)
             /\ UNCHANGED <<customers_db, products_db, order_items_db>>]_vars

\* C18 witness: a product was updated by a body that carries name, stock and
\* the key id, after another update had already been applied
C18_Witness ==
    /\ resp.op = "update_product" /\ resp.status = 200
    /\ "id" \in DOMAIN resp.request
    /\ resp.body["name"] = "renamed"
    /\ now = 3

---------------------------------------------------------------------------
(* Claims about the checkpointed conversation demo *)

\* how many messages of a history are the system prompt
RECURSIVE PromptCount(_)
PromptCount(msgs) ==
    IF msgs = <<>> THEN 0
    ELSE (IF msgs[1].type = "SystemMessage" THEN 1 ELSE 0) + PromptCount(Tail(msgs))

\* C7: the first answered call on a fresh thread_id yields a history whose
\* first entry is the fixed system prompt; every later answered call on the
\* thread yields the thread's previous history followed by exactly two new
\* entries, the user message and then the assistant reply; earlier entries are
\* unchanged, and the system prompt appears exactly once.
C7_HistoryGrowsByTwo ==
    [][(resp'.op = "checkpointer_chat" /\ resp'.status = 200)
       => LET t == resp'.thread_id
              before == threads[t]
              after == resp'.messages
          IN /\ threads'[t] = after
             /\ \A u \in ThreadIds \ {t} : threads'[u] = threads[u]
             /\ after[1] = SystemPrompt
             /\ PromptCount(after) = 1
             /\ before = <<>> =>
                   after = <<SystemPrompt, HumanMessage(resp'.user_input),
                             AIMessage(resp'.result)>>
             /\ before # <<>> =>
                   /\ Len(after) = Len(before) + 2
                   /\ SubSeq(after, 1, Len(before)) = before
                   /\ after[Len(before) + 1] = HumanMessage(resp'.user_input)
                   /\ after[Len(before) + 2] = AIMessage(resp'.result)]_vars

\* C7 witness: the second answered call on a thread returned five messages
C7_Witness ==
    /\ resp.op = "checkpointer_chat" /\ resp.status = 200
    /\ Len(resp.messages) = 5
    /\ resp.messages[4] = HumanMessage(resp.user_input)

\* C19: the history operation is read-only: it returns the current message
\* history of the thread asked for, an empty list for a thread never used,
\* and leaves the stored state of every thread as it was (so a later chat call
\* finds what it would have found without the read).
C19_HistoryIsReadOnly ==
    [][resp'.op = "checkpointer_history"
       => /\ threads' = threads
          /\ resp'.status = 200
          /\ resp'.messages = threads[resp'.thread_id]
          /\ threads[resp'.thread_id] = <<>> => resp'.messages = <<>>]_vars

\* C19 witness: the history of a thread with one answered exchange was read
\* while the other thread has never been used
C19_Witness ==
    /\ resp.op = "checkpointer_history"
    /\ resp.thread_id = "t2"
    /\ Len(resp.messages) = 3
    /\ threads["t1"] = <<>>

---------------------------------------------------------------------------
(* Claims about the query translator *)

\* C8: when the provider's response cannot be parsed as JSON, or the provider
\* call fails, convert_nl_to_es_query returns (it raises nothing) a query whose
\* query.bool.must holds exactly one clause, a match of full_content against
\* the original query text, plus the standard highlight block; the result
\* depends on the query text alone.
C8_FallbackOnParseFailure ==
    (/\ nl_result # NoResult
     /\ \/ provider = ProviderRaises
        \/ ~JsonLoads(JsonMatch(provider)).ok)
    => LET r == nl_result.value IN
       /\ r.t = "obj"
       /\ DOMAIN r.v = {"query", "highlight"}
       /\ r.v["highlight"] = HighlightBlock
       /\ DOMAIN r.v["query"].v = {"bool"}
       /\ DOMAIN r.v["query"].v["bool"].v = {"must"}
       /\ LET must == r.v["query"].v["bool"].v["must"] IN
          /\ must.t = "list"
          /\ Len(must.v) = 1
          /\ must.v[1] =
                Obj([match |-> Obj([full_content |-> Str(nl_result.query_text)])])

\* C8 witness: the provider wrote a well-formed object followed by a stray
\* closing brace, which the decoder rejects, and the translator returned
C8_Witness ==
    /\ nl_result # NoResult
    /\ provider # ProviderRaises
    /\ Len(provider) >= 5
    /\ provider[1] = LBrace
    /\ ParseValue(provider, 1).ok
    /\ ~JsonLoads(JsonMatch(provider)).ok

\* the translator returned from the try block of lines 473-495: the provider
\* answered, its text decoded to a JSON object and no normalisation step raised
ReturnedParsedQuery ==
    /\ nl_result # NoResult
    /\ provider # ProviderRaises
    /\ JsonLoads(JsonMatch(provider)).ok
    /\ JsonLoads(JsonMatch(provider)).val.t = "obj"
    /\ ~NormaliseRaises(JsonLoads(JsonMatch(provider)).val)

\* r has the shape {"query": {"bool": {"must": [...]}}}
HasMustList(r) ==
    /\ r.t = "obj"
    /\ "query" \in DOMAIN r.v
    /\ r.v["query"].t = "obj"
    /\ "bool" \in DOMAIN r.v["query"].v
    /\ r.v["query"].v["bool"].t = "obj"
    /\ "must" \in DOMAIN r.v["query"].v["bool"].v
    /\ r.v["query"].v["bool"].v["must"].t = "list"

\* C21: whenever convert_nl_to_es_query returns a query built from the
\* provider's JSON object (not the basic query of the except branches), the
\* result has the shape {"query": {"bool": {"must": [...]}}} with must a
\* list, and carries the highlight block over full_content, messages.content
\* and summary.  The code only adds a must when none is there: a must the
\* provider wrote as a single clause, or a bool that is a string or a list,
\* is returned as it came.
C21_ParsedQueryHasMustList ==
    ReturnedParsedQuery
    => /\ HasMustList(nl_result.value)
       /\ "highlight" \in DOMAIN nl_result.value.v
       /\ nl_result.value.v["highlight"] = HighlightBlock

---------------------------------------------------------------------------
(* Claims about the search endpoints *)

\* C9: a vector-search-customers request whose embedding call raises or
\* returns nothing is answered 400 with the detail 无法生成查询向量 (written
\* "cannot generate query vector" here), and no query is handed to the search
\* engine for it.
C9_NoVectorIs400 ==
    (/\ resp.op = "vector_search_customers"
     /\ resp.embed \in {"raise", "none", "empty"})
    => /\ resp.status = 400
       /\ resp.detail = "cannot generate query vector"
       /\ es_log = <<>>

C9_Witness ==
    /\ resp.op = "vector_search_customers"
    /\ resp.embed = "raise"
    /\ resp.status = 400
    /\ es_log = <<>>

\* page < 1, page_size < 1, or similarity_threshold outside 0..1
OutOfRange(body) ==
    \/ body.page < 1
    \/ body.page_size < 1
    \/ /\ "similarity_threshold" \in DOMAIN body
       /\ (body.similarity_threshold < 0 \/ body.similarity_threshold > 1000)

\* C10: a search_customers or vector-search-customers request with page < 1,
\* page_size < 1 or similarity_threshold outside 0..1 is answered 422 and
\* nothing of the handler runs (no query is issued).
C10_OutOfRangeIs422 ==
    (/\ resp.op \in {"search_customers", "vector_search_customers"}
     /\ OutOfRange(resp.request))
    => /\ resp.status = 422
       /\ es_log = <<>>

\* C11: when a query vector was generated and a search call of the search
\* engine raises during vector-search-customers, the answer is 500 with the
\* detail 向量搜索客户失败 (written "vector search of customers failed" here).
C11_EsErrorIs500 ==
    (/\ resp.op = "vector_search_customers"
     /\ resp.embed = "vector"
     /\ resp.es_raised)
    => /\ resp.status = 500
       /\ resp.detail = "vector search of customers failed"

\* C12: an answered (200) vector-search-customers request queried the search
\* engine exactly once, with a kNN body on content_vector whose k is the
\* requested k and whose query_vector is the whole generated vector.
C12_KnnBodyCarriesRequestedK ==
    (resp.op = "vector_search_customers" /\ resp.status = 200)
    => /\ Len(es_log) = 1
       /\ es_log[1].kind = "knn"
       /\ es_log[1].field = "content_vector"
       /\ es_log[1].k = resp.request.k
       /\ es_log[1].query_vector = QueryVector

\* the corrected score of an engine hit: the raw score on the kNN path, the
\* raw score minus 1.0 on the script_score path
CorrectedScore(hit, answered_by) ==
    IF answered_by = "script_score" THEN hit.score - 1000 ELSE hit.score

\* score >= max(t * 0.8, 0.3), both sides scaled by ten
MeetsBound(score, t) == score * 10 >= t * 8 /\ score >= 300

\* C22: every hit vector_search_conversations returns has a corrected score
\* of at least max(t * 0.8, 0.3); every engine hit meeting that bound is
\* returned, rescored, exactly once; the returned hits are in descending order
\* of corrected score; and the reported total is the number of returned hits.
C22_ThresholdFilter ==
    resp.op = "vector_search_conversations"
    => LET hits == resp.response.hits
           engine == resp.engine_hits
           t == resp.similarity_threshold
           kept == {i \in 1..Len(engine) :
                       MeetsBound(CorrectedScore(engine[i], resp.answered_by), t)}
       IN /\ \A j \in 1..Len(hits) : MeetsBound(hits[j].score, t)
          /\ Len(hits) = Cardinality(kept)
          /\ \A i \in kept : \E j \in 1..Len(hits) :
                hits[j] = [engine[i] EXCEPT
                              !.score = CorrectedScore(engine[i], resp.answered_by)]
          /\ \A j \in 1..(Len(hits) - 1) : hits[j].score >= hits[j + 1].score
          /\ resp.response.total = Len(hits)

\* C22 witness: the script_score fallback answered three hits in ascending
\* order, the threshold 1.0 dropped one of them and kept the one exactly at
\* the bound 0.8, and the two kept hits were returned best first
C22_Witness ==
    /\ resp.op = "vector_search_conversations"
    /\ resp.answered_by = "script_score"
    /\ resp.similarity_threshold = 1000
    /\ Len(resp.engine_hits) = 3
    /\ Len(resp.response.hits) = 2
    /\ resp.response.hits[1].score = 900
    /\ resp.response.hits[2].score = 800

---------------------------------------------------------------------------
---------------------------------------------------------------------------
(* Claims about calculate_weighted_similarity *)

\* the i-th largest score of a list (i from 1), counted with repetitions
RankedScore(scores, i) ==
    LET atLeast(v) == Cardinality({j \in 1..Len(scores) : scores[j] >= v})
    IN SeqMax([k \in 1..Len(scores) |->
                 IF atLeast(scores[k]) >= i THEN scores[k] ELSE 0])

\* w_i = max(0.2, 1.0 - 0.2 i) in tenths
ClaimedWeight(i) == IF 10 - 2 * i > 2 THEN 10 - 2 * i ELSE 2

RECURSIVE ClaimedSum(_, _)
ClaimedSum(scores, n) ==
    IF n = 0 THEN 0
    ELSE ClaimedSum(scores, n - 1) + RankedScore(scores, n) * ClaimedWeight(n - 1)

RECURSIVE ClaimedWeightSum(_)
ClaimedWeightSum(n) ==
    IF n = 0 THEN 0 ELSE ClaimedWeightSum(n - 1) + ClaimedWeight(n - 1)

\* a list with the entries at i and j exchanged
Swap(scores, i, j) ==
    [k \in 1..Len(scores) |->
        IF k = i THEN scores[j] ELSE IF k = j THEN scores[i] ELSE scores[k]]

\* C13: for a non-empty list calculate_weighted_similarity returns
\* (sum of s_i w_i) / (sum of w_i) over the scores in descending order with
\* w_i = max(0.2, 1.0 - 0.2 i); exchanging two entries of the input does not
\* change the result; the empty list gives 0.0; and [0.9, 0.8, 0.7] gives
\* (0.9*1.0 + 0.8*0.8 + 0.7*0.6) / 2.4.
C13_WeightedSimilarity ==
    resp.op = "calculate_weighted_similarity"
    => LET scores == resp.scores
           n == Len(scores)
       IN /\ scores = <<>> => resp.result = ZeroSimilarity
          /\ scores # <<>> =>
                /\ resp.result.weighted_sum = ClaimedSum(scores, n)
                /\ resp.result.total_weight = ClaimedWeightSum(n)
          /\ \A i, j \in 1..n :
                CalculateWeightedSimilarity(Swap(scores, i, j)) = resp.result
          /\ scores = <<900, 800, 700>> =>
                resp.result = [weighted_sum |-> 900 * 10 + 800 * 8 + 700 * 6,
                               total_weight |-> 24]

\* C13 witness: a list of six scores given in ascending order, so that the
\* sort matters and the weight has reached its floor
C13_Witness ==
    /\ resp.op = "calculate_weighted_similarity"
    /\ resp.scores = <<700, 700, 700, 900, 900, 900>>
    /\ resp.result.total_weight = 32

---------------------------------------------------------------------------
(* Claims about aggregate_customer_data *)

NoDuplicates(seq) ==
    \A i, j \in 1..Len(seq) : seq[i] = seq[j] => i = j

\* C23: aggregate_customer_data returns exactly one entry per distinct
\* customer_id of the input hits; an entry's conversation_count is the number
\* of input hits of its customer, it holds at most 5 summaries, and its
\* mentioned products, industries, topics and complaints hold no value twice;
\* the list is in descending order of (weighted similarity, conversation
\* count).
C23_AggregateCustomerData ==
    resp.op = "aggregate_customer_data"
    => LET hits == resp.hits
           result == resp.result
       IN /\ {result[i].customer_id : i \in 1..Len(result)}
                = {hits[i].customer_id : i \in 1..Len(hits)}
          /\ NoDuplicates([i \in 1..Len(result) |-> result[i].customer_id])
          /\ \A i \in 1..Len(result) :
                /\ result[i].conversation_count =
                      Cardinality({k \in 1..Len(hits) :
                          hits[k].customer_id = result[i].customer_id})
                /\ Len(result[i].conversation_summaries) <= 5
                /\ NoDuplicates(result[i].mentioned_products)
                /\ NoDuplicates(result[i].mentioned_industries)
                /\ NoDuplicates(result[i].mentioned_topics)
                /\ NoDuplicates(result[i].mentioned_complaints)
          /\ \A i \in 1..(Len(result) - 1) :
                LET a == result[i].similarity_score
                    b == result[i + 1].similarity_score
                IN \/ a.weighted_sum * b.total_weight
                         > b.weighted_sum * a.total_weight
                   \/ /\ a.weighted_sum * b.total_weight
                            = b.weighted_sum * a.total_weight
                      /\ result[i].conversation_count
                            >= result[i + 1].conversation_count

\* C23 witness: six hits of one customer, each with a summary, came in; the
\* customer's entry counts six conversations and carries five summaries
C23_Witness ==
    /\ resp.op = "aggregate_customer_data"
    /\ Len(resp.hits) = 6
    /\ \A k \in 1..6 : resp.hits[k].customer_id = "c1" /\ resp.hits[k].summary # ""
    /\ Len(resp.result) = 1
    /\ resp.result[1].conversation_count = 6
    /\ Len(resp.result[1].conversation_summaries) = 5

---------------------------------------------------------------------------
(* Claims about safe_calculator *)

\* whether a tree is built from the whitelist alone: numeric literals, the
\* constants pi and e that the tool's docstring names, the operators of
\* OPERATORS, and calls of the functions of FUNCTIONS by bare name with
\* positional arguments
RECURSIVE InWhitelist(_)
InWhitelist(node) ==
    CASE node.node = "Constant" -> node.kind \in {"int", "float"}
      [] node.node = "Name" -> node.id \in {"pi", "e"}
      [] node.node = "BinOp" ->
            /\ node.op \in {"Add", "Sub", "Mult", "Div", "Pow", "Mod"}
            /\ InWhitelist(node.left) /\ InWhitelist(node.right)
      [] node.node = "UnaryOp" ->
            node.op \in {"USub", "UAdd"} /\ InWhitelist(node.operand)
      [] node.node = "Call" ->
            /\ node.func \in {"abs", "round", "max", "min", "sum"}
            /\ node.keywords = 0
            /\ \A i \in 1..Len(node.args) : InWhitelist(node.args[i])
      [] node.node \in {"Other", "SyntaxError"} -> FALSE

\* C14: safe_calculator returns a string for every input; when the parsed
\* expression holds a construct outside the whitelist the string begins with
\* 计算错误 ("calc error"); and only whitelisted functions are ever invoked.
C14_OutsideWhitelistIsError ==
    resp.op = "safe_calculator"
    => /\ resp.result.text \in {"calc error", "int", "float", "True", "False"}
       /\ ~InWhitelist(resp.expression) => resp.result.text = "calc error"
       /\ resp.result.invoked \subseteq {"abs", "round", "max", "min", "sum"}

---------------------------------------------------------------------------
(* Claims about invoke_with_tools *)

\* C15: when the model's first response requested the tool calls c1..cn, the
\* message list of the final re-invocation holds, after the model's response,
\* exactly one tool message for every ci, in the order requested; no
\* requested call is left unanswered.
C15_EveryRequestedCallAnswered ==
    (/\ resp.op = "invoke_with_tools"
     /\ resp.outcome.final_input # <<>>)
    => LET before == Len(resp.message_list) + 1
           final_input == resp.outcome.final_input
           answers == SubSeq(final_input, before + 1, Len(final_input))
       IN /\ SubSeq(final_input, 1, before - 1) = resp.message_list
          /\ final_input[before].type = "AIMessage"
          /\ final_input[before].tool_calls = resp.requested
          /\ Len(answers) = Len(resp.requested)
          /\ \A i \in 1..Len(answers) :
                /\ answers[i].type = "ToolMessage"
                /\ answers[i].tool_call_id = resp.requested[i].id

\* C16: a call of invoke_with_tools that does not raise returns the final
\* text, the executed tool calls, the whole message list and the flag
\* has_tool_calls, which is true exactly when the model requested a tool
\* call; whether or not the model requested tools.
C16_ResultHasFourEntries ==
    (resp.op = "invoke_with_tools" /\ ~resp.outcome.raised)
    => /\ DOMAIN resp.outcome.result =
             {"response", "tool_calls", "message_list", "has_tool_calls"}
       /\ resp.outcome.result.has_tool_calls = (resp.requested # <<>>)

---------------------------------------------------------------------------
(* Claims about the multi-tool demo *)

\* the rounds in which tool calls were executed: the AIMessages appended to
\* the message history
ToolRounds(messages) ==
    Cardinality({i \in 1..Len(messages) : messages[i].type = "AIMessage"})

\* what holds of every state of a multi-tool demo request
DemoBounded ==
    /\ \A t \in TaskIds :
          tasks[t].handler = "llm_multi_tool_demo"
          => /\ tasks[t].iteration <= 5
             /\ ToolRounds(tasks[t].messages) <= 5
             /\ \A i \in 1..Len(tasks[t].responses) :
                   tasks[t].responses[i].tool_calls # <<>>
    /\ (resp.op = "llm_multi_tool_demo" /\ resp.status = 200)
       => LET n == Len(resp.responses) IN
          /\ ToolRounds(resp.messages) <= 5
          /\ ToolRounds(resp.messages) = n - 1
          /\ \A i \in 1..(n - 1) : resp.responses[i].tool_calls # <<>>
          /\ resp.body.response = resp.responses[n].content
          /\ resp.responses[n].tool_calls # <<>> => ToolRounds(resp.messages) = 5

\* C24: whatever the model answers, a request to the multi-tool demo executes
\* at most 5 rounds of tool calls and then ends; it ends at the first
\* response of the model that requests no tool call, and that response's
\* content is the answer returned.
C24_AtMostFiveRounds ==
    /\ []DemoBounded
    /\ \A t \in TaskIds :
          (tasks[t].handler = "llm_multi_tool_demo") ~> (tasks[t] = Idle)

\* C24 witness: five rounds of tool calls were executed, the model's sixth
\* response asked for tools again, and the request was answered
C24_Witness ==
    /\ resp.op = "llm_multi_tool_demo"
    /\ resp.status = 200
    /\ Len(resp.responses) = 6
    /\ resp.responses[6].tool_calls # <<>>
    /\ resp.body.rounds = 5

---------------------------------------------------------------------------
(* Claims about the smart researcher *)

\* what holds of every state of a smart researcher request
ResearchBounded ==
    /\ \A t \in TaskIds :
          tasks[t].handler = "smart_researcher_agent"
          => /\ tasks[t].step + 1 <= 6
             /\ \A i \in 1..Len(tasks[t].responses) :
                   tasks[t].responses[i].tool_calls # <<>>
    /\ (resp.op = "smart_researcher_agent" /\ resp.status = 200)
       => LET n == Len(resp.responses) IN
          /\ resp.rounds <= 6
          /\ \A i \in 1..(n - 1) : resp.responses[i].tool_calls # <<>>
          /\ resp.responses[n].tool_calls = <<>>
             => resp.body.final_report = resp.responses[n].content
          /\ resp.responses[n].tool_calls # <<>> => resp.rounds = 6

\* C25: whatever the model answers, a request to the smart researcher runs at
\* most 6 rounds (passes of its loop) and then ends; it ends in the first
\* round in which a response of the model requests no tool, and that
\* response's text is the final report returned.
C25_AtMostSixRounds ==
    /\ []ResearchBounded
    /\ \A t \in TaskIds :
          (tasks[t].handler = "smart_researcher_agent") ~> (tasks[t] = Idle)

\* C25 witness: the model asked for tools in the first round, then again, and
\* in the second round answered with the report, which was returned
C25_Witness ==
    /\ resp.op = "smart_researcher_agent"
    /\ resp.status = 200
    /\ resp.rounds = 2
    /\ Len(resp.responses) = 3
    /\ resp.body.final_report = "report"

\* the tool calls of the AIMessage at position i are each answered by a
\* ToolMessage that follows it before any other kind of message
Answered(messages, i) ==
    \A k \in 1..Len(messages[i].tool_calls) :
        \E j \in (i + 1)..Len(messages) :
            /\ messages[j].type = "ToolMessage"
            /\ messages[j].tool_call_id = messages[i].tool_calls[k].id
            /\ \A m \in (i + 1)..j : messages[m].type = "ToolMessage"

\* C29: whenever the smart researcher is about to invoke the model, every
\* response with tool calls that is in the message history has had each of
\* its calls executed and answered by a tool-result message: the history never
\* holds unanswered tool calls when the model is invoked.  The code appends
\* continue_response without executing its tool calls, and appends no message
\* for a tool that raised or a name it does not know.
C29_ToolCallsAnsweredBeforeNextInvoke ==
    \A t \in TaskIds :
        tasks[t].handler = "smart_researcher_agent"
        => \A i \in 1..Len(tasks[t].messages) :
              tasks[t].messages[i].type = "AIMessage"
              => Answered(tasks[t].messages, i)

---------------------------------------------------------------------------
(* Claims about the ingestion script *)

\* the lines that start a message: those that, blanks aside, start with the
\* advisor or the customer prefix
Prefixed(lines) == {i \in 1..Len(lines) : lines[i].prefix # "none"}

\* the lines that continue a message: not blank, without prefix
Continuing(lines) ==
    {i \in 1..Len(lines) : lines[i].prefix = "none" /\ lines[i].text # ""}

\* the k-th line that starts a message
KthPrefixed(lines, k) ==
    CHOOSE i \in Prefixed(lines) :
        Cardinality({j \in Prefixed(lines) : j <= i}) = k

\* the content expected of the message started at line p: its text, then, in
\* file order, a newline and the text of every continuing line before the
\* next line that starts a message
RECURSIVE ExpectedContent(_, _, _)
ExpectedContent(lines, p, j) ==
    IF j > Len(lines) \/ j \in Prefixed(lines) THEN <<>>
    ELSE (IF j \in Continuing(lines) THEN <<"\n", lines[j].text>> ELSE <<>>)
         \o ExpectedContent(lines, p, j + 1)

\* C26: the messages parsed from a conversation file are, in file order, one
\* per line that starts with the advisor or the customer prefix, attributed to
\* that sender; a non-empty line with neither prefix starts no message, and
\* its text is appended, after a newline, to the content of the message before
\* it.
C26_ParsedMessages ==
    (resp.op = "process_conversation_file" /\ resp.returned = "doc")
    => LET lines == resp.lines
           messages == resp.messages
       IN /\ Len(messages) = Cardinality(Prefixed(lines))
          /\ \A k \in 1..Len(messages) :
                LET p == KthPrefixed(lines, k) IN
                /\ messages[k].sender_type = lines[p].prefix
                /\ messages[k].sender_id =
                      (IF lines[p].prefix = "advisor" THEN "FA1" ELSE "CL1")
                /\ messages[k].content =
                      <<lines[p].text>> \o ExpectedContent(lines, p, p + 1)

\* C26 witness: an advisor line, two lines without prefix and a customer line
\* were parsed into two messages, the first of three pieces of text
C26_Witness ==
    /\ resp.op = "process_conversation_file"
    /\ resp.returned = "doc"
    /\ Len(resp.lines) = 4
    /\ Len(resp.messages) = 2
    /\ resp.messages[1].sender_type = "advisor"
    /\ resp.messages[1].content = <<"a", "\n", "x", "\n", "y">>
    /\ resp.messages[2].sender_type = "customer"

---------------------------------------------------------------------------
(* Claims about concurrent requests *)

\* two create requests of one store that were in flight at the same time and
\* were both answered 201
CreatedTogether(t, u) ==
    /\ t # u
    /\ tasks[t].handler \in CreateHandlers
    /\ tasks[u].handler = tasks[t].handler
    /\ tasks[t].state = "answered" /\ tasks[t].status = 201
    /\ tasks[u].state = "answered" /\ tasks[u].status = 201
    /\ u \in tasks[t].concurrent

---------------------------------------------------------------------------
(* Claims about the ids of the three stores *)

\* the store a create handler appends to, and its part of assigned_ids
CreatedIn(op) ==
    CASE op = "create_customer" -> [db |-> customers_db,
                                    assigned |-> assigned_ids.customers]
      [] op = "create_product" -> [db |-> products_db,
                                   assigned |-> assigned_ids.products]
      [] op = "create_order" -> [db |-> orders_db,
                                 assigned |-> assigned_ids.orders]

\* a step that created a record (answered 201)
IsCreateStep ==
    /\ resp'.op \in {"create_customer", "create_product", "create_order"}
    /\ resp'.status = 201

\* C30: within each of the three stores, an id that was given to a record is
\* never given again to a record created later, whatever creates and deletes
\* are requested.
C30_IdsNeverReused ==
    [][IsCreateStep => resp'.id \notin CreatedIn(resp'.op).assigned]_vars

---------------------------------------------------------------------------
(* Claims about the ReAct agent *)

\* C20: every execution of the agent runs with a loop whose iteration cap,
\* verbosity and prompt are the agent's settings at that moment, however they
\* were changed (set_max_iterations, set_verbose, set_custom_prompt, or the
\* options max_iterations and verbose of run).
C20_LoopMatchesSettings ==
    (resp.op = "run" /\ resp.executed_with # NoExecutor)
    => /\ resp.executed_with.max_iterations = resp.settings.max_iterations
       /\ resp.executed_with.verbose = resp.settings.verbose
       /\ resp.settings.custom_prompt # None
             => resp.executed_with.prompt = resp.settings.custom_prompt
       /\ resp.settings.custom_prompt = None
             => resp.executed_with.prompt \in {"hwchase17/react", "default template"}

---------------------------------------------------------------------------
(* Initial state and specifications *)

Init ==
    /\ now = 1
    /\ resp = NoResp
    /\ customers_db = SeedCustomers
    /\ products_db = SeedProducts
    /\ orders_db = SeedOrders
    /\ order_items_db = SeedOrderItems
    /\ threads = [t \in ThreadIds |-> <<>>]
    /\ provider = ProviderRaises
    /\ nl_result = NoResult
    /\ es_log = <<>>
    /\ agent = NewReactAgent
    /\ tasks = [t \in TaskIds |-> Idle]
    /\ assigned_ids = SeedIds

NextCustomers ==
    \/ \E customer \in CustomerCreates :
          create_customer(customer) /\ UNCHANGED tasks
    \/ \E customer_id \in CustomerIds, customer \in CustomerUpdates :
          update_customer(customer_id, customer)
    \/ \E customer_id \in CustomerIds : delete_customer(customer_id)

SpecCustomers == Init /\ [][NextCustomers]_vars

NextProducts ==
    \/ \E product \in ProductCreates :
          create_product(product) /\ UNCHANGED tasks
    \/ \E product_id \in ProductIds : get_product(product_id)
    \/ \E product_id \in ProductIds, product \in ProductUpdates :
          update_product(product_id, product)
    \/ \E product_id \in ProductIds : delete_product(product_id)

SpecProducts == Init /\ [][NextProducts]_vars

NextOrders ==
    \/ \E order \in OrderCreates : create_order(order) /\ UNCHANGED tasks
    \/ \E q \in OrderQueries : get_orders(q)
    \/ \E order_id \in OrderIds : get_order(order_id)
    \/ \E order_id \in OrderIds, order \in OrderUpdates :
          update_order(order_id, order)
    \/ \E order_id \in OrderIds : delete_order(order_id)

SpecOrders == Init /\ [][NextOrders]_vars

NextChat ==
    \/ \E thread_id \in ThreadIds, user_input \in UserInputs,
          outcome \in ModelOutcomes, input_saved \in BOOLEAN :
          checkpointer_chat(thread_id, user_input, outcome, input_saved)
    \/ \E thread_id \in ThreadIds : checkpointer_history(thread_id)

SpecChat == Init /\ [][NextChat]_vars

\* the translator under every behaviour of the provider
InitNL ==
    /\ now = 1
    /\ resp = NoResp
    /\ customers_db = SeedCustomers
    /\ products_db = SeedProducts
    /\ orders_db = SeedOrders
    /\ order_items_db = SeedOrderItems
    /\ threads = [t \in ThreadIds |-> <<>>]
    /\ provider \in ProviderOutcomes
    /\ nl_result = NoResult
    /\ es_log = <<>>
    /\ agent = NewReactAgent
    /\ tasks = [t \in TaskIds |-> Idle]
    /\ assigned_ids = SeedIds

\* the search endpoints, the chat model behaving in one of a few ways
SearchProviders ==
    {ProviderRaises,
     <<LBrace, KeyTok("term"), AtomTok("s:plain"), RBrace>>,
     <<LBrace, KeyTok("bool"), AtomTok("l:must"), RBrace>>}

InitSearch ==
    /\ now = 1
    /\ resp = NoResp
    /\ customers_db = SeedCustomers
    /\ products_db = SeedProducts
    /\ orders_db = SeedOrders
    /\ order_items_db = SeedOrderItems
    /\ threads = [t \in ThreadIds |-> <<>>]
    /\ provider \in SearchProviders
    /\ nl_result = NoResult
    /\ es_log = <<>>
    /\ agent = NewReactAgent
    /\ tasks = [t \in TaskIds |-> Idle]
    /\ assigned_ids = SeedIds

NextSearch ==
    \/ \E body \in VectorSearchBodies, llm \in LlmOutcomes,
          embed \in EmbedOutcomes, env \in SearchEnvs :
          vector_search_customers(body, llm, embed, env)
    \/ \E body \in SearchBodies, es \in AggOutcomes : search_customers(body, es)

SpecSearch == InitSearch /\ [][NextSearch]_vars

NextSimilarity == \E scores \in ScoreLists : calculate_weighted_similarity(scores)

SpecSimilarity == Init /\ [][NextSimilarity]_vars

NextCalculator == \E parsed \in Expressions : safe_calculator(parsed)

SpecCalculator == Init /\ [][NextCalculator]_vars

NextTools ==
    \/ \E messages \in MessagesArgs, tools \in {AVAILABLE_TOOLS, {"safe_calculator"}},
          system_prompt \in SystemPrompts, first \in FirstOutcomes,
          failing \in FailingTools, final \in FinalOutcomes :
          invoke_with_tools(messages, tools, system_prompt, first, failing, final)
    \/ \E first \in FirstOutcomes, failing \in FailingTools,
          final \in FinalOutcomes :
          llm_tool_use("question", first, failing, final)

SpecTools == Init /\ [][NextTools]_vars

\* the three update handlers together
NextUpdates ==
    \/ \E customer_id \in {2, 4}, customer \in CustomerUpdates :
          update_customer(customer_id, customer)
    \/ \E product_id \in {2, 4}, product \in ProductUpdates :
          update_product(product_id, product)
    \/ \E order_id \in {1, 3}, order \in OrderUpdates :
          update_order(order_id, order)

SpecUpdates == Init /\ [][NextUpdates]_vars

NextAgent ==
    \/ add_tool("safe_calculator")
    \/ \E kwargs \in RunKwargs, hub_ok \in BOOLEAN, invoke \in {"ok", "raise"} :
          run(kwargs, hub_ok, invoke)
    \/ \E max_iterations \in IterationCaps : set_max_iterations(max_iterations)
    \/ \E verbose \in BOOLEAN : set_verbose(verbose)
    \/ \E prompt \in CustomPrompts : set_custom_prompt(prompt)

SpecAgent == Init /\ [][NextAgent]_vars

NextVectorSearch ==
    \E query_vector \in {QueryVector, NoVector, <<>>},
       filters \in {<<>>, <<[term |-> "a1"]>>}, k \in {10, 50},
       similarity_threshold \in SimilarityThresholds, env \in SearchEnvs :
       vector_search_conversations(query_vector, filters, k,
                                   similarity_threshold, env)

SpecVectorSearch == Init /\ [][NextVectorSearch]_vars

NextAggregate == \E hits \in AggregateInputs : aggregate_customer_data(hits)

SpecAggregate == Init /\ [][NextAggregate]_vars

\* one multi-tool demo request at a time; a model call that was started
\* completes (the client's timeout ends it with an exception at the latest)
NextDemo ==
    \/ llm_multi_tool_demo("t1", "question")
    \/ \E outcome \in DemoOutcomes, failing \in DemoFailing :
          multi_tool_demo_resume("t1", outcome, failing)

SpecDemo ==
    /\ Init
    /\ [][NextDemo]_vars
    /\ WF_vars(\E outcome \in DemoOutcomes, failing \in DemoFailing :
                  multi_tool_demo_resume("t1", outcome, failing))

\* one smart researcher request at a time; a model call that was started
\* completes
NextResearch ==
    \/ smart_researcher_agent("t1", "topic")
    \/ \E outcome \in ResearchOutcomes, failing \in ResearchFailing :
          smart_researcher_resume("t1", outcome, failing)

SpecResearch ==
    /\ Init
    /\ [][NextResearch]_vars
    /\ WF_vars(\E outcome \in ResearchOutcomes, failing \in ResearchFailing :
                  smart_researcher_resume("t1", outcome, failing))

\* the ingestion script about to process one file
InitIngest ==
    /\ now = 1
    /\ resp = NoResp
    /\ customers_db = SeedCustomers
    /\ products_db = SeedProducts
    /\ orders_db = SeedOrders
    /\ order_items_db = SeedOrderItems
    /\ threads = [t \in ThreadIds |-> <<>>]
    /\ provider = ProviderRaises
    /\ nl_result = NoResult
    /\ es_log = <<>>
    /\ agent = NewReactAgent
    /\ \E task \in IngestTasks : tasks = [t \in TaskIds |->
                                            IF t = "t1" THEN task ELSE Idle]
    /\ assigned_ids = SeedIds

NextIngest == process_conversation_file("t1")

SpecIngest == InitIngest /\ [][NextIngest]_vars

\* create requests of the three stores, up to two in flight at a time
NextConcurrent ==
    \/ \E t \in TaskIds, handler \in CreateHandlers :
          \E body \in CreateBodies(handler) : receive_create(t, handler, body)
    \/ \E t \in TaskIds : run_create(t)
    \/ \E t \in TaskIds : finish_create(t)

SpecConcurrent == Init /\ [][NextConcurrent]_vars

\* the create requests of the three stores that add a record whatever the
\* store holds: a customer with an address no seed customer has, a product,
\* an order of the shortest item list
StoreCustomerCreates == {c \in CustomerCreates : c.email = "new@example.com"}

StoreProductCreates == {p \in ProductCreates : p.name = "tablet"}

StoreOrderCreates ==
    {o \in OrderCreates :
        \A other \in OrderCreates : Len(o.items) <= Len(other.items)}

\* the ids the delete requests name: the greatest id of the seed records of
\* the store and the ids above it
StoreDeleteIds(ids, seed) == {x \in ids : \A y \in seed : y <= x}

\* creates and deletes on the three stores
NextStores ==
    \/ \E customer \in StoreCustomerCreates :
          create_customer(customer) /\ UNCHANGED tasks
    \/ \E customer_id \in StoreDeleteIds(CustomerIds, SeedIds.customers) :
          delete_customer(customer_id)
    \/ \E product \in StoreProductCreates :
          create_product(product) /\ UNCHANGED tasks
    \/ \E product_id \in StoreDeleteIds(ProductIds, SeedIds.products) :
          delete_product(product_id)
    \/ \E order \in StoreOrderCreates : create_order(order) /\ UNCHANGED tasks
    \/ \E order_id \in StoreDeleteIds(OrderIds, SeedIds.orders) :
          delete_order(order_id)

SpecStores == Init /\ [][NextStores]_vars

NextNL == \E query_text \in QueryTexts : convert_nl_to_es_query(query_text)

SpecNL == InitNL /\ [][NextNL]_vars

====
